---- MODULE Spec2Model ----
(***************************************************************************)
(* Ingenic XBurst SMP bring-up, mailbox IPI transport and cache-operation  *)
(* dispatcher, modelled from arch/mips/jz4740/smp.c, arch/mips/mm/         *)
(* c-ingenic.c and the second copy of the cache code (unnamed/part_001).   *)
(*                                                                         *)
(* Register words are modelled as sets of bits: OR is union, AND-NOT is    *)
(* set difference, a bit test is membership.                               *)
(***************************************************************************)
EXTENDS Integers, Sequences, FiniteSets, TLC

\* ------------------------------------------------------------------------
\* Bounds of the model
\* ------------------------------------------------------------------------

\* Send operations started in one behaviour of Spec (handler runs are not
\* counted: each one consumes a pending bit that a send has set).
MaxSends == 2

\* jz4780_boot_secondary calls started in one behaviour of SpecBoot.
MaxBoots == 2

\* Neighbouring memory blocks whose cache state is followed.
NearBlocks == 6

\* ------------------------------------------------------------------------
\* Program constants
\* ------------------------------------------------------------------------

\* mbox_handler serves cores 0..3.
NR_CPUS == 4

CPUS == 0 .. (NR_CPUS - 1)

\* The two copies of the SMP code.
SMP_C == "smp.c"
C_INGENIC_C == "c-ingenic.c"
SmpFiles == {SMP_C, C_INGENIC_C}

SMP_RESCHEDULE_YOURSELF == "SMP_RESCHEDULE_YOURSELF"
SMP_CALL_FUNCTION == "SMP_CALL_FUNCTION"
ActionBits == {SMP_RESCHEDULE_YOURSELF, SMP_CALL_FUNCTION}

\* Action words the generic SMP layer passes to the send operations.
SendActions == {{SMP_RESCHEDULE_YOURSELF}, {SMP_CALL_FUNCTION}}

\* cpu arguments handed to jz4780_send_ipi_single: the cores, and one index
\* past the last core.
SendTargets == CPUS \cup {NR_CPUS}

\* Target masks handed to jz4780_send_ipi_mask.
SendMasks == {{1, 2}}

VARIABLES
    smp_file,     \* which copy of the SMP code is built
    panicked,     \* panic() has halted the kernel
    smp_lock,     \* set of cores holding smp_lock ({} when free)
    mailbox,      \* c0 mailbox registers, core -> action word
    mirqp,        \* core-status register: cores whose MIRQnP bit is set
    pc,           \* thread context of each core
    opk,          \* operation the thread context is running
    todo,         \* targets still to be served by the running send
    cur,          \* cpu argument of jz4780_send_ipi_single_locked
    act,          \* action argument of the running send
    mbox,         \* local mbox of jz4780_send_ipi_single_locked
    hpc,          \* interrupt context (mbox_handler) of each core
    h_action,     \* local action of mbox_handler
    h_status,     \* local status of mbox_handler
    sched_ipi,    \* scheduler_ipi() calls of the latest handler run
    call_ipi,     \* generic_smp_call_function_interrupt() calls of that run
    h_log,        \* messages mbox_handler printed during that run
    owed,         \* history: bits posted to a core and not yet read by it
    trip,         \* history: the round trip in progress on each core
    nops,         \* send operations started so far
    corectrl,     \* core-control register: set of <<bit, core>>
    cpu_clock_gates,  \* cores whose clock-gate handle is not NULL
    clk_prepared, \* prepare count of each core's clock gate
    clk_enabled,  \* enable count of each core's clock gate
    jz4780_cpu_entry_sp,
    jz4780_cpu_entry_gp,
    wbuf,         \* stores to entry_sp/entry_gp not yet visible to others
    cpu_running,  \* the cpu_running mask
    b_cpu,        \* cpu argument of jz4780_boot_secondary
    b_idle,       \* idle argument of jz4780_boot_secondary
    b_ctrl,       \* local ctrl of jz4780_boot_secondary
    b_res,        \* history: clock outcome and return value of the latest boot sequence
    sec,          \* where each core is on its way out of reset
    s_sp,         \* stack pointer a core loaded on entry
    s_gp,         \* global pointer a core loaded on entry
    expect,       \* history: the pair written by the call that released a core
    overtaken,    \* history: another boot wrote the pair before the core read it
    nboots,       \* boot_secondary calls started so far
    cache_file,   \* which copy of the cache code is built
    mips_machtype,
    cpu_type,     \* current_cpu_type()
    dcache_size,
    icache_size,
    scache_size,
    sc_lsize,     \* cpu_scache_line_size()
    dc_lsize,     \* cpu_dcache_line_size()
    online,       \* cpu_online_mask
    c_stage,      \* where the cache operation in progress stands
    c_caller,     \* the core that called it
    c_op,         \* the request: operation name and arguments
    queued,       \* peers that still have to run the dispatched function
    ran,          \* runs of the dispatched function on each core
    scfm_calls,   \* smp_call_function_many calls of the operation
    clog,         \* primitives each core issued for the operation
    preempt_count,  \* preempt_disable() nesting of the caller
    l1_dirty,     \* core -> blocks modified in its data cache
    l2_dirty,     \* block -> modified contents held by the secondary cache
    memory,       \* block -> contents of memory
    mem_entry,    \* history: memory when the operation was called
    repeat,       \* history: the call repeats the one before it
    reim_irqm,    \* REIM register: the interrupt mask bits that are set
    down,         \* where each core stands in being taken down
    d_cpu,        \* cpu argument of jz4780_cpu_die
    clears,       \* history: set-to-clear changes of a core's running bit
    ndies,        \* times each core has been taken down so far
    pd_stat,      \* local stat of smp_clr_pending in play_dead
    setup,        \* jz4780_smp_setup and jz4780_smp_prepare_cpus: stage, locals, REIM fields
    wait_irqoff,  \* jz4780_smp_wait_irqoff on one core: stage, loop counters, tags of its data cache
    i_stage,      \* where ingenic_cache_init stands
    config1,      \* fields of the c0 config1 register
    config2,      \* fields of the c0 config2 register
    scache_not_present,  \* MIPS_CACHE_NOT_PRESENT in c->scache.flags
    blast_scache_fn,     \* the routine ingenic_blast_scache points to
    dma_ops,      \* the routines installed as _dma_cache_wback_inv, _wback, _inv
    cca,          \* the static cca of the cache code
    c0_config_k0, \* coherency field of the c0 config register
    page_cachable_default,  \* _page_cachable_default
    cca_cmdline,  \* history: cca as the command line left it
    cca_at_init,  \* history: cca after the setup run of ingenic_cache_init
    npm,          \* PM notifier calls so far
    last_pm       \* history: cmd of the latest PM notifier call

ipi_vars == <<smp_lock, mailbox, mirqp, pc, opk, todo, cur, act, mbox, hpc,
              h_action, h_status, sched_ipi, call_ipi, h_log, owed, trip, nops>>

boot_vars == <<corectrl, cpu_clock_gates, clk_prepared, clk_enabled,
               jz4780_cpu_entry_sp, jz4780_cpu_entry_gp, wbuf, cpu_running,
               b_cpu, b_idle, b_res, b_ctrl, sec, s_sp, s_gp, expect, overtaken,
               nboots>>

cache_config == <<cache_file, mips_machtype, cpu_type, dcache_size,
                  icache_size, scache_size, sc_lsize, dc_lsize, online>>

cache_lines == <<l1_dirty, l2_dirty, memory, mem_entry, repeat>>

cache_vars == <<cache_config, c_stage, c_caller, c_op, queued, ran,
                scfm_calls, clog, preempt_count, cache_lines>>

hot_vars == <<reim_irqm, down, d_cpu, clears, ndies, pd_stat>>

init_vars == <<i_stage, config1, config2, scache_not_present, blast_scache_fn, dma_ops,
               cca, c0_config_k0, page_cachable_default, cca_cmdline,
               cca_at_init, npm, last_pm>>

more_vars == <<hot_vars, init_vars, setup, wait_irqoff>>

vars == <<smp_file, panicked, ipi_vars, boot_vars, cache_vars, more_vars>>

NoTrip == [stage |-> "none", bit |-> {}]

Min(S) == CHOOSE x \in S : \A y \in S : x <= y

\* ------------------------------------------------------------------------
\* Hardware registers
\* ------------------------------------------------------------------------

\* write_c0_mailboxN(val): the register takes val; a non-zero word raises
\* the mailbox interrupt of core N (its MIRQnP bit in the core status).
write_c0_mailbox(n, val) ==
    /\ mailbox' = [mailbox EXCEPT ![n] = val]
    /\ mirqp' = IF val = {} THEN mirqp ELSE mirqp \cup {n}

\* ------------------------------------------------------------------------
\* jz4780_smp_setup and jz4780_smp_prepare_cpus
\* ------------------------------------------------------------------------

\* KSEG1ADDR(&jz4780_secondary_cpu_entry) & REIM_ENTRY.
SECONDARY_ENTRY == "jz4780_secondary_cpu_entry"

CORECTRL_SLEEPM(cpu) == <<"SLEEPM", cpu>>

\* Bits of the reset-entry and interrupt-mask register: REIM_IRQ0M << cpu
\* (bit cpu + 8) routes the external interrupt to the core, REIM_MBOXIRQ0M
\* << cpu (bit cpu) unmasks its mailbox interrupt.
REIM_IRQM(cpu) == <<"IRQM", cpu>>
REIM_MBOXIRQM(cpu) == <<"MBOXIRQM", cpu>>

\* The mask bits once every core is up: each core has unmasked its mailbox
\* interrupt in jz4780_smp_finish, and the external interrupt goes to the
\* cores of the set routed.
reim_masks(routed) ==
    {REIM_MBOXIRQM(c) : c \in 0..3} \cup {REIM_IRQM(c) : c \in routed}

\* The mailbox registers jz4780_smp_setup writes zero to: smp.c writes
\* mailbox0 and mailbox1, c-ingenic.c writes mailbox0 to mailbox3.
setup_mailboxes(file) == IF file = SMP_C THEN {0, 1} ELSE {0, 1, 2, 3}

\* The value of the local cpu when jz4780_smp_setup reaches
\* cpumask_set_cpu(cpu, &cpu_running): smp.c leaves its loop
\* for (cpu = 0; cpu < NR_CPUS; cpu++) with cpu = NR_CPUS; c-ingenic.c has
\* counted the CPU nodes with cpu++.
setup_running_bit(file, nodes) == IF file = SMP_C THEN NR_CPUS ELSE nodes

\* A setup that records the core it runs on.
setup_running_bit_self(file, nodes) == 0

\* Both functions have returned; `nodes` CPU nodes, the mailbox interrupt of
\* core 0 unmasked and the reset entry programmed.
SetupReturned ==
    [stage |-> "done", nodes |-> NR_CPUS, cpu |-> 0, possible |-> CPUS,
     mboxirq0m |-> TRUE, entry |-> SECONDARY_ENTRY,
     reim |-> [mboxirq0m |-> TRUE, entry |-> SECONDARY_ENTRY],
     todo |-> {}, irq |-> <<>>, ctrl |-> {}]

\* ------------------------------------------------------------------------
\* jz4780_smp_wait_irqoff and its write-back pass
\* ------------------------------------------------------------------------

XBURST_TAGLO_DIRTY_MASK == 12

\* a & b and a | b on naturals.
RECURSIVE BitAnd(_, _)
BitAnd(a, b) ==
    IF a = 0 \/ b = 0 THEN 0
    ELSE 2 * BitAnd(a \div 2, b \div 2) + (IF a % 2 = 1 /\ b % 2 = 1 THEN 1 ELSE 0)

RECURSIVE BitOr(_, _)
BitOr(a, b) ==
    IF a = 0 THEN b
    ELSE IF b = 0 THEN a
    ELSE 2 * BitOr(a \div 2, b \div 2) + (IF a % 2 = 1 \/ b % 2 = 1 THEN 1 ELSE 0)

\* __ffs(x): the position of the lowest set bit of x > 0.
RECURSIVE ffs(_)
ffs(x) == IF x % 2 = 1 THEN 0 ELSE 1 + ffs(x \div 2)

\* A dirty test that looks at the lower dirty bit only.
tag_dirty_low_bit(tag) == BitAnd(tag, 4) # 0

\* and %0, %0, XBURST_TAGLO_DIRTY_MASK; beq $0, %0, 1f.
tag_dirty(tag) == BitAnd(tag, XBURST_TAGLO_DIRTY_MASK) # 0

\* No core is in jz4780_smp_wait_irqoff.
NotIdle ==
    [stage |-> "none", ways |-> 1, waysize |-> 32, waybit |-> 5, linesz |-> 32,
     ws |-> 0, addr |-> 0, tags |-> <<>>, entry_tags |-> <<>>,
     visits |-> <<>>, wbinv |-> <<>>, after |-> <<>>,
     resched |-> FALSE, cause |-> {}, status |-> {}, irqs |-> "on"]

\* ------------------------------------------------------------------------
\* Mailbox IPI transport: senders
\* ------------------------------------------------------------------------

\* The switch of jz4780_send_ipi_single_locked in smp.c: case 0 and case 1.
send_cases_smp_c == {0, 1}

\* The same switch in c-ingenic.c: case 0 to case 3.
send_cases_c_ingenic_c == {0, 1, 2, 3}

\* The cases of the copy that is built.
send_cases(file) ==
    IF file = SMP_C THEN send_cases_smp_c ELSE send_cases_c_ingenic_c

\* Local interrupts are off from spin_lock_irqsave to spin_unlock_irqrestore.
irqs_disabled(c) == pc[c] # "idle"

\* jz4780_send_ipi_single(cpu, action) is called on core c.
jz4780_send_ipi_single(c, cpu, action) ==
    /\ ~panicked /\ nops < MaxSends
    /\ pc[c] = "idle" /\ hpc[c] = "none"
    /\ pc' = [pc EXCEPT ![c] = "lock"]
    /\ opk' = [opk EXCEPT ![c] = "single"]
    /\ todo' = [todo EXCEPT ![c] = {cpu}]
    /\ act' = [act EXCEPT ![c] = action]
    /\ nops' = nops + 1
    /\ UNCHANGED <<smp_file, panicked, smp_lock, mailbox, mirqp, cur, mbox,
                   hpc, h_action, h_status, sched_ipi, call_ipi, h_log, owed, trip>>

\* jz4780_send_ipi_mask(mask, action) is called on core c.
jz4780_send_ipi_mask(c, mask, action) ==
    /\ ~panicked /\ nops < MaxSends
    /\ pc[c] = "idle" /\ hpc[c] = "none"
    /\ pc' = [pc EXCEPT ![c] = "lock"]
    /\ opk' = [opk EXCEPT ![c] = "mask"]
    /\ todo' = [todo EXCEPT ![c] = mask]
    /\ act' = [act EXCEPT ![c] = action]
    /\ nops' = nops + 1
    /\ UNCHANGED <<smp_file, panicked, smp_lock, mailbox, mirqp, cur, mbox,
                   hpc, h_action, h_status, sched_ipi, call_ipi, h_log, owed, trip>>

\* spin_lock_irqsave(&smp_lock, flags) of the two send operations; the
\* for_each_cpu loop (or the single call) then picks its first target.
send_lock(c) ==
    /\ ~panicked
    /\ pc[c] = "lock" /\ hpc[c] = "none"
    /\ smp_lock = {}
    /\ smp_lock' = {c}
    /\ pc' = [pc EXCEPT ![c] = "read"]
    /\ cur' = [cur EXCEPT ![c] = Min(todo[c])]
    /\ UNCHANGED <<smp_file, panicked, mailbox, mirqp, opk, todo, act, mbox,
                   hpc, h_action, h_status, sched_ipi, call_ipi, h_log, owed, trip,
                   nops>>

\* jz4780_send_ipi_single_locked, first half: switch (cpu) and
\* mbox = read_c0_mailboxN(); the default case panics.
send_locked_read(c) ==
    /\ ~panicked
    /\ pc[c] = "read" /\ hpc[c] = "none"
    /\ IF cur[c] \in send_cases(smp_file)
       THEN /\ mbox' = [mbox EXCEPT ![c] = mailbox[cur[c]]]
            /\ pc' = [pc EXCEPT ![c] = "write"]
            /\ UNCHANGED panicked
       ELSE /\ panicked' = TRUE
            /\ UNCHANGED <<mbox, pc>>
    /\ UNCHANGED <<smp_file, smp_lock, mailbox, mirqp, opk, todo, cur, act,
                   hpc, h_action, h_status, sched_ipi, call_ipi, h_log, owed, trip,
                   nops>>

\* A send that writes the action alone, dropping the bits it read.
send_word_overwrite(m, action) == action

\* The word jz4780_send_ipi_single_locked writes back: mbox | action.
send_word(m, action) == m \cup action

\* History of the round trips: a single send that finds the mailbox of an
\* idle target empty starts one; any other post to that core ends it.
trip_after_post(c, t) ==
    IF opk[c] = "single" /\ mailbox[t] = {} /\ hpc[t] = "none"
    THEN [stage |-> "posted", bit |-> act[c]]
    ELSE NoTrip

\* A write step of the loop that drops smp_lock before the next target.
send_locked_write_unlocking(c) ==
    /\ ~panicked
    /\ pc[c] = "write" /\ hpc[c] = "none"
    /\ write_c0_mailbox(cur[c], send_word(mbox[c], act[c]))
    /\ owed' = [owed EXCEPT ![cur[c]] = @ \cup act[c]]
    /\ trip' = [trip EXCEPT ![cur[c]] = trip_after_post(c, cur[c])]
    /\ todo' = [todo EXCEPT ![c] = @ \ {cur[c]}]
    /\ IF todo[c] \ {cur[c]} = {}
       THEN /\ pc' = [pc EXCEPT ![c] = "unlock"]
            /\ UNCHANGED <<cur, smp_lock>>
       ELSE /\ pc' = [pc EXCEPT ![c] = "read"]
            /\ cur' = [cur EXCEPT ![c] = Min(todo[c] \ {cur[c]})]
            /\ smp_lock' = {}
    /\ UNCHANGED <<smp_file, panicked, opk, act, mbox, hpc,
                   h_action, h_status, sched_ipi, call_ipi, h_log, nops>>

\* jz4780_send_ipi_single_locked, second half: write_c0_mailboxN(mbox |
\* action); then the next target of the loop, or on to the unlock.
send_locked_write(c) ==
    /\ ~panicked
    /\ pc[c] = "write" /\ hpc[c] = "none"
    /\ write_c0_mailbox(cur[c], send_word(mbox[c], act[c]))
    /\ owed' = [owed EXCEPT ![cur[c]] = @ \cup act[c]]
    /\ trip' = [trip EXCEPT ![cur[c]] = trip_after_post(c, cur[c])]
    /\ todo' = [todo EXCEPT ![c] = @ \ {cur[c]}]
    /\ IF todo[c] \ {cur[c]} = {}
       THEN /\ pc' = [pc EXCEPT ![c] = "unlock"]
            /\ UNCHANGED cur
       ELSE /\ pc' = [pc EXCEPT ![c] = "read"]
            /\ cur' = [cur EXCEPT ![c] = Min(todo[c] \ {cur[c]})]
    /\ UNCHANGED <<smp_file, panicked, smp_lock, opk, act, mbox, hpc,
                   h_action, h_status, sched_ipi, call_ipi, h_log, nops>>

\* spin_unlock_irqrestore(&smp_lock, flags); the send returns.
send_unlock(c) ==
    /\ ~panicked
    /\ pc[c] = "unlock" /\ hpc[c] = "none"
    /\ smp_lock' = smp_lock \ {c}
    /\ pc' = [pc EXCEPT ![c] = "idle"]
    /\ opk' = [opk EXCEPT ![c] = "none"]
    /\ cur' = [cur EXCEPT ![c] = 0]
    /\ act' = [act EXCEPT ![c] = {}]
    /\ mbox' = [mbox EXCEPT ![c] = {}]
    /\ UNCHANGED <<smp_file, panicked, mailbox, mirqp, todo, hpc, h_action,
                   h_status, sched_ipi, call_ipi, h_log, owed, trip, nops>>

\* ------------------------------------------------------------------------
\* Mailbox IPI transport: mbox_handler
\* ------------------------------------------------------------------------

\* A mailbox interrupt that is taken inside a critical section too, as it
\* would be if the section were entered without disabling interrupts.
mbox_irq_in_section(c) ==
    /\ ~panicked
    /\ hpc[c] = "none"
    /\ c \in mirqp
    /\ hpc' = [hpc EXCEPT ![c] = "lock"]
    /\ sched_ipi' = [sched_ipi EXCEPT ![c] = 0]
    /\ call_ipi' = [call_ipi EXCEPT ![c] = 0]
    /\ h_log' = [h_log EXCEPT ![c] = <<>>]
    /\ UNCHANGED <<smp_file, panicked, smp_lock, mailbox, mirqp, pc, opk,
                   todo, cur, act, mbox, h_action, h_status, owed, trip, nops>>

\* The mailbox interrupt is taken on core c: its pending bit is set and the
\* core runs with interrupts enabled.
mbox_irq(c) ==
    /\ ~panicked
    /\ hpc[c] = "none" /\ ~irqs_disabled(c)
    /\ c \in mirqp
    /\ hpc' = [hpc EXCEPT ![c] = "lock"]
    /\ sched_ipi' = [sched_ipi EXCEPT ![c] = 0]
    /\ call_ipi' = [call_ipi EXCEPT ![c] = 0]
    /\ h_log' = [h_log EXCEPT ![c] = <<>>]
    /\ UNCHANGED <<smp_file, panicked, smp_lock, mailbox, mirqp, pc, opk,
                   todo, cur, act, mbox, h_action, h_status, owed, trip, nops>>

\* A handler that goes on without taking smp_lock.
handler_nolock(c) ==
    /\ ~panicked
    /\ hpc[c] = "lock"
    /\ hpc' = [hpc EXCEPT ![c] = "read"]
    /\ UNCHANGED <<smp_file, panicked, smp_lock, mailbox, mirqp, pc, opk,
                   todo, cur, act, mbox, h_action, h_status, sched_ipi,
                   call_ipi, h_log, owed, trip, nops>>

\* spin_lock(&smp_lock) of mbox_handler.
handler_lock(c) ==
    /\ ~panicked
    /\ hpc[c] = "lock"
    /\ smp_lock = {}
    /\ smp_lock' = {c}
    /\ hpc' = [hpc EXCEPT ![c] = "read"]
    /\ UNCHANGED <<smp_file, panicked, mailbox, mirqp, pc, opk, todo, cur,
                   act, mbox, h_action, h_status, sched_ipi, call_ipi, h_log, owed,
                   trip, nops>>

\* switch (cpu): action = read_c0_mailboxN(); the default case panics.
handler_read(c) ==
    /\ ~panicked
    /\ hpc[c] = "read"
    /\ IF c \in {0, 1, 2, 3}
       THEN /\ h_action' = [h_action EXCEPT ![c] = mailbox[c]]
            /\ hpc' = [hpc EXCEPT ![c] = "clear"]
            /\ owed' = [owed EXCEPT ![c] = @ \ mailbox[c]]
            /\ trip' = [trip EXCEPT ![c] =
                           IF @.stage = "posted"
                           THEN [@ EXCEPT !.stage = "handling"] ELSE NoTrip]
            /\ UNCHANGED panicked
       ELSE /\ panicked' = TRUE
            /\ UNCHANGED <<h_action, hpc, owed, trip>>
    /\ UNCHANGED <<smp_file, smp_lock, mailbox, mirqp, pc, opk, todo, cur,
                   act, mbox, h_status, sched_ipi, call_ipi, h_log, nops>>

\* write_c0_mailboxN(0).
handler_clear(c) ==
    /\ ~panicked
    /\ hpc[c] = "clear"
    /\ write_c0_mailbox(c, {})
    /\ hpc' = [hpc EXCEPT ![c] = "status_read"]
    /\ UNCHANGED <<smp_file, panicked, smp_lock, pc, opk, todo, cur, act,
                   mbox, h_action, h_status, sched_ipi, call_ipi, h_log, owed, trip,
                   nops>>

\* status = read_c0_corestatus().
handler_status_read(c) ==
    /\ ~panicked
    /\ hpc[c] = "status_read"
    /\ h_status' = [h_status EXCEPT ![c] = mirqp]
    /\ hpc' = [hpc EXCEPT ![c] = "status_write"]
    /\ UNCHANGED <<smp_file, panicked, smp_lock, mailbox, mirqp, pc, opk,
                   todo, cur, act, mbox, h_action, sched_ipi, call_ipi, h_log, owed,
                   trip, nops>>

\* status &= ~(CORESTATUS_MIRQ0P << cpu); write_c0_corestatus(status).
handler_status_write(c) ==
    /\ ~panicked
    /\ hpc[c] = "status_write"
    /\ mirqp' = h_status[c] \ {c}
    /\ hpc' = [hpc EXCEPT ![c] = "unlock"]
    /\ UNCHANGED <<smp_file, panicked, smp_lock, mailbox, pc, opk, todo, cur,
                   act, mbox, h_action, h_status, sched_ipi, call_ipi, h_log, owed,
                   trip, nops>>

\* spin_unlock(&smp_lock).
handler_unlock(c) ==
    /\ ~panicked
    /\ hpc[c] = "unlock"
    /\ smp_lock' = smp_lock \ {c}
    /\ hpc' = [hpc EXCEPT ![c] = "dispatch"]
    /\ h_status' = [h_status EXCEPT ![c] = {}]
    /\ UNCHANGED <<smp_file, panicked, mailbox, mirqp, pc, opk, todo, cur,
                   act, mbox, h_action, sched_ipi, call_ipi, h_log, owed, trip,
                   nops>>

\* What mbox_handler prints for the word it read: it has no print call.
handler_report(action) == <<>>

\* Number of calls the dispatch of mbox_handler makes for one action bit.
dispatch_calls(action, bit) == IF bit \in action THEN 1 ELSE 0

\* if (action & SMP_RESCHEDULE_YOURSELF) scheduler_ipi();
\* if (action & SMP_CALL_FUNCTION) generic_smp_call_function_interrupt();
\* return IRQ_HANDLED.
handler_dispatch(c) ==
    /\ ~panicked
    /\ hpc[c] = "dispatch"
    /\ sched_ipi' = [sched_ipi EXCEPT ![c] =
                        @ + dispatch_calls(h_action[c], SMP_RESCHEDULE_YOURSELF)]
    /\ call_ipi' = [call_ipi EXCEPT ![c] =
                       @ + dispatch_calls(h_action[c], SMP_CALL_FUNCTION)]
    /\ h_log' = [h_log EXCEPT ![c] = handler_report(h_action[c])]
    /\ hpc' = [hpc EXCEPT ![c] = "none"]
    /\ trip' = [trip EXCEPT ![c] =
                   IF @.stage = "handling"
                   THEN [@ EXCEPT !.stage = "done"] ELSE NoTrip]
    /\ UNCHANGED <<smp_file, panicked, smp_lock, mailbox, mirqp, pc, opk,
                   todo, cur, act, mbox, h_action, h_status, owed, nops>>

\* ------------------------------------------------------------------------
\* Secondary-core boot sequencer
\* ------------------------------------------------------------------------

\* The idle argument of jz4780_boot_secondary is the idle thread of the
\* core being booted; idle threads are named by their core.
idle_thread(cpu) == cpu

ipi_rest == <<mailbox, mirqp, opk, todo, cur, act, mbox, hpc, h_action,
              h_status, sched_ipi, call_ipi, h_log, owed, trip, nops>>

\* The value both scalars hold before the first boot (zero-initialised).
ZeroWord == [f |-> "zero", task |-> 0]

\* __KSTK_TOS(idle): the top of the idle task's kernel stack.
KSTK_TOS(idle) == [f |-> "__KSTK_TOS", task |-> idle]

\* (u32)task_thread_info(idle).
task_thread_info(idle) == [f |-> "task_thread_info", task |-> idle]

CORECTRL_SWRST(cpu) == <<"SWRST", cpu>>
CORECTRL_RPC(cpu) == <<"RPC", cpu>>

\* The core-control register takes val. A core whose SWRST bit is set is
\* held in reset; a core whose bit goes from set to clear leaves reset and
\* starts at jz4780_secondary_cpu_entry.
write_c0_corectrl(val) ==
    /\ corectrl' = val
    /\ sec' = [c \in CPUS |->
                  IF CORECTRL_SWRST(c) \in val THEN "reset"
                  ELSE IF CORECTRL_SWRST(c) \in corectrl THEN "released"
                  ELSE sec[c]]
    /\ s_sp' = [c \in CPUS |->
                   IF CORECTRL_SWRST(c) \in val THEN ZeroWord ELSE s_sp[c]]
    /\ s_gp' = [c \in CPUS |->
                   IF CORECTRL_SWRST(c) \in val THEN ZeroWord ELSE s_gp[c]]

\* The stores of wbuf reach memory, oldest first.
flushed(mem, var, buf) ==
    LET hits == {i \in 1 .. Len(buf) : buf[i][1] = var}
    IN  IF hits = {} THEN mem
        ELSE buf[CHOOSE i \in hits : \A j \in hits : j <= i][2]

\* No boot sequence has got to the clock yet; ret is the sequence of the
\* values returned, empty until the return. The clock steps and the return
\* are made under smp_lock, so one record serves all callers.
NoResult == [clk |-> "none", ret |-> <<>>]

\* What the clock steps did: the handle is NULL, clk_prepare fails (the
\* c-ingenic.c copy alone calls it), clk_enable fails, or both succeed.
clk_outcome(gated, prep_ok, en_ok) ==
    IF ~gated THEN "null"
    ELSE IF smp_file = C_INGENIC_C /\ ~prep_ok THEN "prepare_failed"
    ELSE IF ~en_ok THEN "enable_failed"
    ELSE "ok"

\* A boot sequence that hands the error of the clock steps to its caller.
boot_return_clk_error(clk) == IF clk \in {"prepare_failed", "enable_failed"} THEN -1 ELSE 0

\* return 0.
boot_return_value(clk) == 0

\* jz4780_boot_secondary(cpu, idle) is called on core k, a core that is up,
\* for a core that is not.
jz4780_boot_secondary(k, cpu, idle) ==
    /\ ~panicked /\ nboots < MaxBoots
    /\ pc[k] = "idle" /\ hpc[k] = "none" /\ sec[k] = "up"
    /\ sec[cpu] # "up"
    /\ pc' = [pc EXCEPT ![k] = "b_lock"]
    /\ b_cpu' = [b_cpu EXCEPT ![k] = cpu]
    /\ b_idle' = [b_idle EXCEPT ![k] = idle]
    /\ nboots' = nboots + 1
    /\ UNCHANGED <<smp_file, panicked, smp_lock, ipi_rest, corectrl,
                   cpu_clock_gates, clk_prepared, clk_enabled,
                   jz4780_cpu_entry_sp, jz4780_cpu_entry_gp, wbuf,
                   cpu_running, b_ctrl, b_res, sec, s_sp, s_gp, expect, overtaken>>

\* A boot sequence that goes on without taking smp_lock.
boot_nolock(k) ==
    /\ ~panicked
    /\ pc[k] = "b_lock"
    /\ pc' = [pc EXCEPT ![k] = "b_assert"]
    /\ UNCHANGED <<smp_file, panicked, smp_lock, ipi_rest, boot_vars>>

\* spin_lock_irqsave(&smp_lock, flags).
boot_lock(k) ==
    /\ ~panicked
    /\ pc[k] = "b_lock"
    /\ smp_lock = {}
    /\ smp_lock' = {k}
    /\ pc' = [pc EXCEPT ![k] = "b_assert"]
    /\ UNCHANGED <<smp_file, panicked, ipi_rest, boot_vars>>

\* ctrl = read_c0_corectrl(); ctrl |= CORECTRL_SWRST0 << cpu;
\* write_c0_corectrl(ctrl).
boot_assert_reset(k) ==
    /\ ~panicked
    /\ pc[k] = "b_assert"
    /\ b_ctrl' = [b_ctrl EXCEPT ![k] = corectrl \cup {CORECTRL_SWRST(b_cpu[k])}]
    /\ write_c0_corectrl(corectrl \cup {CORECTRL_SWRST(b_cpu[k])})
    /\ pc' = [pc EXCEPT ![k] = "b_clk"]
    /\ UNCHANGED <<smp_file, panicked, smp_lock, ipi_rest, cpu_clock_gates,
                   clk_prepared, clk_enabled, jz4780_cpu_entry_sp,
                   jz4780_cpu_entry_gp, wbuf, cpu_running, b_cpu, b_idle, b_res,
                   expect, overtaken, nboots>>

\* if (cpu_clock_gates[cpu]): smp.c calls clk_enable alone (the gate was
\* prepared in jz4780_smp_prepare_cpus); c-ingenic.c calls clk_prepare and
\* then clk_enable, and only logs an error of either. prep_ok and en_ok are
\* the outcomes of the two calls.
boot_ungate_clock(k, prep_ok, en_ok) ==
    /\ ~panicked
    /\ pc[k] = "b_clk"
    /\ IF b_cpu[k] \in cpu_clock_gates
       THEN /\ clk_prepared' =
                   [clk_prepared EXCEPT ![b_cpu[k]] =
                       IF smp_file = C_INGENIC_C /\ prep_ok THEN @ + 1 ELSE @]
            /\ clk_enabled' =
                   [clk_enabled EXCEPT ![b_cpu[k]] =
                       IF en_ok THEN @ + 1 ELSE @]
       ELSE /\ prep_ok /\ en_ok
            /\ UNCHANGED <<clk_prepared, clk_enabled>>
    /\ b_res' = [clk |-> clk_outcome(b_cpu[k] \in cpu_clock_gates,
                                      prep_ok, en_ok),
                  ret |-> <<>>]
    /\ pc' = [pc EXCEPT ![k] = "b_sp"]
    /\ UNCHANGED <<smp_file, panicked, smp_lock, ipi_rest, corectrl,
                   cpu_clock_gates, jz4780_cpu_entry_sp, jz4780_cpu_entry_gp,
                   wbuf, cpu_running, b_cpu, b_idle, b_ctrl, sec, s_sp, s_gp,
                   expect, overtaken, nboots>>

\* History: a store to the shared pair overtakes every core that has left
\* reset and has not finished reading the pair.
overtaken_by_store ==
    [c \in CPUS |-> overtaken[c] \/ sec[c] \in {"released", "got_sp"}]

\* jz4780_cpu_entry_sp = __KSTK_TOS(idle).
boot_write_sp(k) ==
    /\ ~panicked
    /\ pc[k] = "b_sp"
    /\ wbuf' = Append(wbuf, <<"sp", KSTK_TOS(b_idle[k])>>)
    /\ overtaken' = overtaken_by_store
    /\ pc' = [pc EXCEPT ![k] = "b_gp"]
    /\ UNCHANGED <<smp_file, panicked, smp_lock, ipi_rest, corectrl,
                   cpu_clock_gates, clk_prepared, clk_enabled,
                   jz4780_cpu_entry_sp, jz4780_cpu_entry_gp, cpu_running,
                   b_cpu, b_idle, b_res, b_ctrl, sec, s_sp, s_gp, expect, nboots>>

\* jz4780_cpu_entry_gp = (u32)task_thread_info(idle).
boot_write_gp(k) ==
    /\ ~panicked
    /\ pc[k] = "b_gp"
    /\ wbuf' = Append(wbuf, <<"gp", task_thread_info(b_idle[k])>>)
    /\ overtaken' = overtaken_by_store
    /\ pc' = [pc EXCEPT ![k] = "b_wmb"]
    /\ UNCHANGED <<smp_file, panicked, smp_lock, ipi_rest, corectrl,
                   cpu_clock_gates, clk_prepared, clk_enabled,
                   jz4780_cpu_entry_sp, jz4780_cpu_entry_gp, cpu_running,
                   b_cpu, b_idle, b_res, b_ctrl, sec, s_sp, s_gp, expect, nboots>>

\* A buffered store becomes visible to the other cores.
store_drains ==
    /\ ~panicked
    /\ wbuf # <<>>
    /\ IF Head(wbuf)[1] = "sp"
       THEN /\ jz4780_cpu_entry_sp' = Head(wbuf)[2]
            /\ UNCHANGED jz4780_cpu_entry_gp
       ELSE /\ jz4780_cpu_entry_gp' = Head(wbuf)[2]
            /\ UNCHANGED jz4780_cpu_entry_sp
    /\ wbuf' = Tail(wbuf)
    /\ UNCHANGED <<smp_file, panicked, ipi_vars, corectrl, cpu_clock_gates,
                   clk_prepared, clk_enabled, cpu_running, b_cpu, b_idle, b_res,
                   b_ctrl, sec, s_sp, s_gp, expect, overtaken, nboots>>

\* A boot sequence that goes on to the reset deassert with no barrier.
boot_no_wmb(k) ==
    /\ ~panicked
    /\ pc[k] = "b_wmb"
    /\ pc' = [pc EXCEPT ![k] = "b_deassert"]
    /\ UNCHANGED <<smp_file, panicked, smp_lock, ipi_rest, boot_vars>>

\* smp_wmb(): the stores before it are visible before any store after it.
boot_wmb(k) ==
    /\ ~panicked
    /\ pc[k] = "b_wmb"
    /\ jz4780_cpu_entry_sp' = flushed(jz4780_cpu_entry_sp, "sp", wbuf)
    /\ jz4780_cpu_entry_gp' = flushed(jz4780_cpu_entry_gp, "gp", wbuf)
    /\ wbuf' = <<>>
    /\ pc' = [pc EXCEPT ![k] = "b_deassert"]
    /\ UNCHANGED <<smp_file, panicked, smp_lock, ipi_rest, corectrl,
                   cpu_clock_gates, clk_prepared, clk_enabled, cpu_running,
                   b_cpu, b_idle, b_res, b_ctrl, sec, s_sp, s_gp, expect, overtaken,
                   nboots>>

\* ctrl &= ~(CORECTRL_SWRST0 << cpu); write_c0_corectrl(ctrl).
boot_deassert_reset(k) ==
    /\ ~panicked
    /\ pc[k] = "b_deassert"
    /\ b_ctrl' = [b_ctrl EXCEPT ![k] = @ \ {CORECTRL_SWRST(b_cpu[k])}]
    /\ write_c0_corectrl(b_ctrl[k] \ {CORECTRL_SWRST(b_cpu[k])})
    /\ expect' = [expect EXCEPT ![b_cpu[k]] =
                     <<KSTK_TOS(b_idle[k]), task_thread_info(b_idle[k])>>]
    /\ overtaken' = [overtaken EXCEPT ![b_cpu[k]] = FALSE]
    /\ pc' = [pc EXCEPT ![k] = "b_running"]
    /\ UNCHANGED <<smp_file, panicked, smp_lock, ipi_rest, cpu_clock_gates,
                   clk_prepared, clk_enabled, jz4780_cpu_entry_sp,
                   jz4780_cpu_entry_gp, wbuf, cpu_running, b_cpu, b_idle, b_res,
                   nboots>>

\* A boot sequence that goes on to the unlock with the running bit as it is.
boot_skip_running(k) ==
    /\ ~panicked
    /\ pc[k] = "b_running"
    /\ pc' = [pc EXCEPT ![k] = "b_unlock"]
    /\ UNCHANGED <<smp_file, panicked, smp_lock, ipi_rest, boot_vars>>

\* cpumask_set_cpu(cpu, &cpu_running).
boot_set_running(k) ==
    /\ ~panicked
    /\ pc[k] = "b_running"
    /\ cpu_running' = cpu_running \cup {b_cpu[k]}
    /\ pc' = [pc EXCEPT ![k] = "b_unlock"]
    /\ UNCHANGED <<smp_file, panicked, smp_lock, ipi_rest, corectrl,
                   cpu_clock_gates, clk_prepared, clk_enabled,
                   jz4780_cpu_entry_sp, jz4780_cpu_entry_gp, wbuf, b_cpu,
                   b_idle, b_res, b_ctrl, sec, s_sp, s_gp, expect, overtaken,
                   nboots>>

\* spin_unlock_irqrestore(&smp_lock, flags); return 0. The unlock is a
\* release: stores made before it are visible once the lock is seen free.
boot_unlock(k) ==
    /\ ~panicked
    /\ pc[k] = "b_unlock"
    /\ jz4780_cpu_entry_sp' = flushed(jz4780_cpu_entry_sp, "sp", wbuf)
    /\ jz4780_cpu_entry_gp' = flushed(jz4780_cpu_entry_gp, "gp", wbuf)
    /\ wbuf' = <<>>
    /\ smp_lock' = smp_lock \ {k}
    /\ pc' = [pc EXCEPT ![k] = "idle"]
    /\ b_cpu' = [b_cpu EXCEPT ![k] = 0]
    /\ b_idle' = [b_idle EXCEPT ![k] = 0]
    /\ b_ctrl' = [b_ctrl EXCEPT ![k] = {}]
    /\ b_res' = [b_res EXCEPT !.ret = <<boot_return_value(b_res.clk)>>]
    /\ UNCHANGED <<smp_file, panicked, ipi_rest, corectrl, cpu_clock_gates,
                   clk_prepared, clk_enabled, cpu_running, sec, s_sp, s_gp,
                   expect, overtaken, nboots>>

\* jz4780_secondary_cpu_entry on a released core: load sp from
\* jz4780_cpu_entry_sp.
entry_load_sp(c) ==
    /\ ~panicked
    /\ sec[c] = "released"
    /\ s_sp' = [s_sp EXCEPT ![c] = jz4780_cpu_entry_sp]
    /\ sec' = [sec EXCEPT ![c] = "got_sp"]
    /\ UNCHANGED <<smp_file, panicked, ipi_vars, corectrl, cpu_clock_gates,
                   clk_prepared, clk_enabled, jz4780_cpu_entry_sp,
                   jz4780_cpu_entry_gp, wbuf, cpu_running, b_cpu, b_idle, b_res,
                   b_ctrl, s_gp, expect, overtaken, nboots>>

\* jz4780_secondary_cpu_entry: load gp from jz4780_cpu_entry_gp and enter
\* the kernel on that stack.
entry_load_gp(c) ==
    /\ ~panicked
    /\ sec[c] = "got_sp"
    /\ s_gp' = [s_gp EXCEPT ![c] = jz4780_cpu_entry_gp]
    /\ sec' = [sec EXCEPT ![c] = "up"]
    /\ UNCHANGED <<smp_file, panicked, ipi_vars, corectrl, cpu_clock_gates,
                   clk_prepared, clk_enabled, jz4780_cpu_entry_sp,
                   jz4780_cpu_entry_gp, wbuf, cpu_running, b_cpu, b_idle, b_res,
                   b_ctrl, s_sp, expect, overtaken, nboots>>

\* ------------------------------------------------------------------------
\* Cache-operation dispatcher
\* ------------------------------------------------------------------------

\* The two copies of the cache code.
PART_001 == "part_001"
CacheFiles == {C_INGENIC_C, PART_001}

CPU_XBURST == "CPU_XBURST"
CPU_XBURST2 == "CPU_XBURST2"

\* The SoCs the operations are run on: the machine type, the CPU type
\* current_cpu_type() reports, and the cache sizes and line sizes
\* probe_pcache and probe_scache compute as sets * ways * linesz (the
\* MACH_INGENIC_JZ4780 case forces 1024 sets and 4 ways on the secondary
\* cache; scache 0 is a core without secondary cache).
Platforms ==
    {[mach |-> "MACH_INGENIC_JZ4740", cpu |-> CPU_XBURST, dc_lsize |-> 32,
      dcache |-> 32 * 1 * 32, icache |-> 64 * 1 * 32,
      sc_lsize |-> 0, scache |-> 0],
     [mach |-> "MACH_INGENIC_JZ4780", cpu |-> CPU_XBURST, dc_lsize |-> 32,
      dcache |-> 64 * 1 * 32, icache |-> 32 * 1 * 32,
      sc_lsize |-> 32, scache |-> 1024 * 4 * 32],
     [mach |-> "MACH_INGENIC_X1830", cpu |-> CPU_XBURST, dc_lsize |-> 32,
      dcache |-> 32 * 1 * 32, icache |-> 32 * 1 * 32,
      sc_lsize |-> 32, scache |-> 64 * 1 * 32],
     [mach |-> "MACH_INGENIC_X2000", cpu |-> CPU_XBURST2, dc_lsize |-> 32,
      dcache |-> 64 * 1 * 32, icache |-> 32 * 1 * 32,
      sc_lsize |-> 64, scache |-> 64 * 1 * 64],
     [mach |-> "MACH_INGENIC_X2000", cpu |-> CPU_XBURST2, dc_lsize |-> 32,
      dcache |-> 32 * 1 * 32, icache |-> 64 * 1 * 32,
      sc_lsize |-> 0, scache |-> 0]}

\* Position of a machine type in the order of the MACH_INGENIC_ values.
mach_rank(m) ==
    CASE m = "MACH_INGENIC_JZ4740" -> 1
      [] m = "MACH_INGENIC_JZ4750" -> 2
      [] m = "MACH_INGENIC_JZ4780" -> 3
      [] m = "MACH_INGENIC_X1830" -> 4
      [] m = "MACH_INGENIC_X2000" -> 5

\* mips_machtype >= ref.
machtype_ge(ref) == mach_rank(mips_machtype) >= mach_rank(ref)

\* Sets of online cores the operations are run with; core 0 is the boot
\* core.
OnlineSets == {{0}, {0, 1}, {0, 2, 3}, {0, 1, 2, 3}}

PAGE_SIZE == 2 ^ 12

\* One cache primitive (or register write) issued by an operation.
Prim(name, a, b) == [p |-> name, a |-> a, b |-> b]
Whole(name) == Prim(name, 0, 0)

\* A request to one of the installed operations: its name and arguments.
\* a, b are start and end of a range flush, address and size of a dma or
\* vmap operation; exec, ctx, present and valid describe the vma, the mm
\* context and the pte a page or vma flush finds.
Request(name, a, b, exec, ctx, present, valid) ==
    [name |-> name, a |-> a, b |-> b, exec |-> exec, ctx |-> ctx,
     present |-> present, valid |-> valid]

NoRequest == Request("none", 0, 0, FALSE, FALSE, FALSE, FALSE)

RangeNames == {"flush_icache_range", "__flush_icache_user_range"}
LocalRangeNames == {"local_flush_icache_range",
                    "__local_flush_icache_user_range"}
DmaNames == {"_dma_cache_wback_inv", "_dma_cache_wback", "_dma_cache_inv"}

\* The user flag the installed wrappers pass down.
user_flag(name) ==
    name \in {"__flush_icache_user_range", "__local_flush_icache_user_range"}

\* cpu_foreign_map[c]: for an online core the other cores that are online;
\* the entry of a core that is not online is empty.
cpu_foreign_map(c) == IF c \in online THEN online \ {c} ELSE {}

\* An ingenic_op_needs_ipi that always answers true.
ingenic_op_always_needs_ipi == TRUE

\* ingenic_op_needs_ipi(): !cpumask_empty(&cpu_foreign_map[0]).
ingenic_op_needs_ipi == cpu_foreign_map(0) # {}

\* A dispatch mask taken from core 0's entry whatever the caller.
call_mask_of_cpu0(k) == cpu_foreign_map(0)

\* The mask handed to smp_call_function_many:
\* &cpu_foreign_map[smp_processor_id()].
call_mask(k) == cpu_foreign_map(k)

\* A cross-core call that does not wait for the peers.
smp_call_nowait == FALSE

\* The wait argument of smp_call_function_many: 1.
smp_call_wait == TRUE

\* smp_call_function_many(mask, func, info, wait) queues func on every
\* online core of mask other than the caller.
smp_call_targets(k, mask) == (mask \cap online) \ {k}

\* local_ingenic_flush_cache_all: ingenic_blast_dcache();
\* ingenic_blast_icache().
local_ingenic_flush_cache_all ==
    <<Whole("ingenic_blast_dcache"), Whole("ingenic_blast_icache")>>

\* The data-cache stage of __local_ingenic_flush_icache_range.
flush_range_dstage(start, end, user) ==
    IF end - start >= dcache_size THEN Whole("ingenic_blast_dcache")
    ELSE IF user THEN Prim("protected_blast_dcache_range", start, end)
    ELSE Prim("blast_dcache_range", start, end)

\* The instruction-cache stage of __local_ingenic_flush_icache_range.
flush_range_istage(start, end, user) ==
    IF end - start > icache_size THEN Whole("ingenic_blast_icache")
    ELSE IF user THEN Prim("protected_blast_icache_range", start, end)
    ELSE Prim("blast_icache_range", start, end)

\* __local_ingenic_flush_icache_range(start, end, user).
local_ingenic_flush_icache_range(start, end, user) ==
    <<flush_range_dstage(start, end, user),
      flush_range_istage(start, end, user)>>

\* The first branch of __ingenic_flush_icache_range: with peers online (in
\* c-ingenic.c only on CPU_XBURST2) a range with 2 * size <= icache_size +
\* dcache_size is flushed with hit operations on the caller alone.
flush_range_hit_path(start, end) ==
    /\ cache_file = C_INGENIC_C => cpu_type = CPU_XBURST2
    /\ ingenic_op_needs_ipi
    /\ (end - start) * 2 <= icache_size + dcache_size

\* The hit operations of that branch.
flush_range_hit_ops(start, end, user) ==
    IF user
    THEN <<Prim("protected_blast_dcache_range", start, end),
           Prim("protected_blast_icache_range", start, end)>>
    ELSE <<Prim("blast_dcache_range", start, end),
           Prim("blast_icache_range", start, end)>>

\* local_ingenic_flush_cache_range of part_001: nothing unless the mm has a
\* context on every core of the mask.
local_ingenic_flush_cache_range(ctx) ==
    IF ctx THEN <<Whole("ingenic_blast_dcache"), Whole("ingenic_blast_icache")>>
    ELSE <<>>

\* address & almask with almask = ~(lsize - 1): the low bits are cleared
\* one by one.
RECURSIVE and_not_low_bits(_, _)
and_not_low_bits(address, low) ==
    IF low = 0 THEN address
    ELSE 2 * and_not_low_bits(address \div 2, low \div 2)

\* address & ~(lsize - 1) for the line sizes the probes produce; lsize 0
\* (no secondary cache probed) makes the mask 0.
align_down(address, lsize) ==
    IF lsize = 0 THEN 0 ELSE and_not_low_bits(address, lsize - 1)

\* ingenic_flush_cache_page of c-ingenic.c.
ingenic_flush_cache_page_c_ingenic_c(r) ==
    LET page == align_down(r.a, PAGE_SIZE)
    IN  IF ~r.ctx \/ ~r.present \/ ~r.exec THEN <<>>
        ELSE IF r.valid
        THEN <<Prim("blast_dcache32_page", page, 0),
               Prim("blast_icache32_page", page, 0)>>
        ELSE <<Prim("blast_dcache32_page_indexed", page, 0),
               Prim("blast_icache32_page_indexed", page, 0)>>

\* local_ingenic_flush_cache_page of part_001: a page that is not mapped
\* in the active mm is reached through kmap_atomic.
local_ingenic_flush_cache_page(r) ==
    LET addr == align_down(r.a, PAGE_SIZE)
    IN  IF ~r.ctx \/ ~r.present \/ ~r.exec THEN <<>>
        ELSE IF r.valid
        THEN <<Prim("ingenic_blast_dcache_page", addr, 0),
               Prim("ingenic_blast_icache_page", addr, 0)>>
        ELSE <<Whole("ingenic_blast_dcache_page(kmap_atomic(page))"),
               Whole("ingenic_blast_icache_page(kmap_atomic(page))")>>

\* A data-cache stage chosen by the size alone.
dma_dstage_size_only(whole, range, addr, size) ==
    IF size >= dcache_size
    THEN Whole(whole)
    ELSE Prim(range, addr, addr + size)

\* The data-cache stage shared by the dma operations: the whole-cache
\* routine when no peer is online and size >= dcache_size, else the range
\* routine.
dma_dstage(whole, range, addr, size) ==
    IF ~ingenic_op_needs_ipi /\ size >= dcache_size
    THEN Whole(whole)
    ELSE Prim(range, addr, addr + size)

\* ingenic_dma_cache_wback_inv of c-ingenic.c (installed as
\* _dma_cache_wback too).
ingenic_dma_cache_wback_inv(addr, size) ==
    IF size = 0 THEN <<>>
    ELSE <<dma_dstage("ingenic_blast_dcache", "blast_dcache_range", addr, size),
           IF size >= scache_size THEN Whole("ingenic_blast_scache")
           ELSE Prim("ingenic_blast_scache_range", addr, addr + size),
           Whole("__sync")>>

\* xburst_dma_cache_inv: c-ingenic.c blasts with ingenic_blast_dcache,
\* part_001 with ingenic_inv_dcache.
xburst_dma_cache_inv(addr, size) ==
    IF size = 0 THEN <<>>
    ELSE <<Whole("write_c0_ingenic_errctl(XBURST_ERRCTL_WST_EN)"),
           dma_dstage(IF cache_file = C_INGENIC_C THEN "ingenic_blast_dcache"
                      ELSE "ingenic_inv_dcache",
                      "blast_inv_dcache_range", addr, size),
           Whole("write_c0_ingenic_errctl(XBURST_ERRCTL_WST_DIS)"),
           Whole("__sync")>>

\* The secondary-cache stage of xburst2_dma_cache_inv for size <
\* scache_size, with the interior invalidated before the boundary lines
\* are written back.
xburst2_inv_scache_interior_first(addr, size) ==
    <<Prim("blast_inv_scache_range", addr, addr + size),
      Prim("cache_op(Hit_Writeback_Inv_SD)", align_down(addr, sc_lsize), 0),
      Prim("cache_op(Hit_Writeback_Inv_SD)",
           align_down(addr + size - 1, sc_lsize), 0)>>

\* The secondary-cache stage of xburst2_dma_cache_inv for size <
\* scache_size: the two boundary lines, then the interior.
xburst2_inv_scache_range(addr, size) ==
    <<Prim("cache_op(Hit_Writeback_Inv_SD)", align_down(addr, sc_lsize), 0),
      Prim("cache_op(Hit_Writeback_Inv_SD)",
           align_down(addr + size - 1, sc_lsize), 0),
      Prim("blast_inv_scache_range", addr, addr + size)>>

\* The secondary-cache stage of xburst2_dma_cache_inv.
xburst2_inv_scache(addr, size) ==
    IF size >= scache_size THEN <<Whole("ingenic_blast_scache")>>
    ELSE xburst2_inv_scache_range(addr, size)

\* An xburst2_dma_cache_inv that runs its secondary-cache stage before its
\* data-cache stage.
xburst2_dma_cache_inv_scache_first(addr, size) ==
    IF size = 0 THEN <<>>
    ELSE xburst2_inv_scache(addr, size)
         \o <<dma_dstage("ingenic_blast_dcache", "blast_inv_dcache_range",
                         addr, size),
              Whole("__sync")>>

\* xburst2_dma_cache_inv (the same in both copies).
xburst2_dma_cache_inv(addr, size) ==
    IF size = 0 THEN <<>>
    ELSE <<dma_dstage("ingenic_blast_dcache", "blast_inv_dcache_range",
                      addr, size)>>
         \o xburst2_inv_scache(addr, size)
         \o <<Whole("__sync")>>

\* xburst_dma_cache_wback_inv of part_001.
xburst_dma_cache_wback_inv(addr, size) ==
    IF size = 0 THEN <<>>
    ELSE <<Whole("write_c0_ingenic_errctl(XBURST_ERRCTL_WST_EN)"),
           dma_dstage(IF machtype_ge("MACH_INGENIC_X1830")
                      THEN "ingenic_blast_dcache" ELSE "blast_dcache32",
                      "blast_dcache_range", addr, size),
           Whole("write_c0_ingenic_errctl(XBURST_ERRCTL_WST_DIS)"),
           Whole("__sync")>>

\* xburst_dma_cache_wback of part_001.
xburst_dma_cache_wback(addr, size) ==
    IF size = 0 THEN <<>>
    ELSE <<dma_dstage("ingenic_wback_dcache", "ingenic_wback_dcache_range",
                      addr, size)>>
         \o (IF machtype_ge("MACH_INGENIC_X1830")
             THEN <<IF size >= scache_size THEN Whole("ingenic_blast_scache")
                    ELSE Prim("blast_scache_range", addr, addr + size)>>
             ELSE <<>>)
         \o <<Whole("__sync")>>

\* xburst2_dma_cache_wback_inv of part_001.
xburst2_dma_cache_wback_inv(addr, size) ==
    IF size = 0 THEN <<>>
    ELSE <<dma_dstage("ingenic_blast_dcache", "blast_dcache_range", addr, size),
           IF size >= scache_size THEN Whole("ingenic_blast_scache")
           ELSE Prim("blast_scache_range", addr, addr + size),
           Whole("__sync")>>

\* xburst2_dma_cache_wback of part_001.
xburst2_dma_cache_wback(addr, size) ==
    IF size = 0 THEN <<>>
    ELSE <<dma_dstage("ingenic_wback_dcache", "ingenic_wback_dcache_range",
                      addr, size),
           IF size >= scache_size THEN Whole("ingenic_blast_scache")
           ELSE Prim("blast_scache_range", addr, addr + size),
           Whole("__sync")>>

\* The routines ingenic_cache_init installs as _dma_cache_wback_inv,
\* _dma_cache_wback and _dma_cache_inv.
dma_installed(name, addr, size) ==
    CASE name = "_dma_cache_inv" ->
             IF cpu_type = CPU_XBURST THEN xburst_dma_cache_inv(addr, size)
             ELSE xburst2_dma_cache_inv(addr, size)
      [] name = "_dma_cache_wback_inv" ->
             IF cache_file = C_INGENIC_C
             THEN ingenic_dma_cache_wback_inv(addr, size)
             ELSE IF cpu_type = CPU_XBURST
             THEN xburst_dma_cache_wback_inv(addr, size)
             ELSE xburst2_dma_cache_wback_inv(addr, size)
      [] name = "_dma_cache_wback" ->
             IF cache_file = C_INGENIC_C
             THEN ingenic_dma_cache_wback_inv(addr, size)
             ELSE IF cpu_type = CPU_XBURST
             THEN xburst_dma_cache_wback(addr, size)
             ELSE xburst2_dma_cache_wback(addr, size)

\* The function an operation hands to smp_call_function_many on its
\* broadcast path, "none" when it has no such path or does not take it.
broadcast_func(r) ==
    CASE r.name = "__flush_cache_all" -> "local_ingenic_flush_cache_all"
      [] r.name \in RangeNames ->
             IF flush_range_hit_path(r.a, r.b) THEN "none"
             ELSE "local_ingenic_flush_icache_range_ipi"
      [] r.name = "flush_cache_range" ->
             IF cache_file = PART_001 /\ r.exec
             THEN "local_ingenic_flush_cache_range" ELSE "none"
      [] r.name = "__flush_kernel_vmap_range" ->
             IF r.b >= dcache_size
             THEN "local_ingenic_flush_kernel_vmap_range_index" ELSE "none"
      [] OTHER -> "none"

\* What a dispatched function issues on the core that runs it.
func_log(func, r) ==
    CASE func = "local_ingenic_flush_cache_all" -> local_ingenic_flush_cache_all
      [] func = "local_ingenic_flush_icache_range_ipi" ->
             local_ingenic_flush_icache_range(r.a, r.b, user_flag(r.name))
      [] func = "local_ingenic_flush_cache_range" ->
             local_ingenic_flush_cache_range(r.ctx)
      [] func = "local_ingenic_flush_kernel_vmap_range_index" ->
             <<Whole("ingenic_blast_dcache")>>

\* What the calling core itself issues in an operation.
local_log(r) ==
    CASE broadcast_func(r) # "none" -> func_log(broadcast_func(r), r)
      [] r.name \in RangeNames ->
             flush_range_hit_ops(r.a, r.b, user_flag(r.name))
      [] r.name \in LocalRangeNames ->
             local_ingenic_flush_icache_range(r.a, r.b, user_flag(r.name))
      [] r.name = "flush_cache_page" ->
             IF cache_file = C_INGENIC_C
             THEN ingenic_flush_cache_page_c_ingenic_c(r)
             ELSE local_ingenic_flush_cache_page(r)
      [] r.name = "flush_cache_range" -> <<>>
      [] r.name = "__flush_kernel_vmap_range" ->
             <<Prim("blast_dcache_range", r.a, r.a + r.b)>>
      [] r.name \in DmaNames -> dma_installed(r.name, r.a, r.b)

\* Whether the operation raises a warning: WARN_ON(size == 0) of the dma
\* operations; the other operations have no WARN_ON.
warns(r) == r.name \in DmaNames /\ r.b = 0

\* Whether the operation runs under preempt_disable(): the dma operations
\* return before it when size is 0, the operations that do nothing or only
\* a range blast never take it, and neither do the local range flushes.
disables_preemption(r) ==
    CASE r.name \in DmaNames -> r.b # 0
      [] r.name \in LocalRangeNames -> FALSE
      [] r.name \in {"flush_cache_range", "__flush_kernel_vmap_range"} ->
             broadcast_func(r) # "none"
      [] OTHER -> TRUE

\* ------------------------------------------------------------------------
\* Effect of the cache primitives on cache lines and memory
\* ------------------------------------------------------------------------

\* The blocks of memory (one data-cache line each) whose state is followed:
\* NearBlocks neighbours at the bottom of the address space and one far
\* away.
\* Addresses are offsets from INDEX_BASE.
Tracked ==
    {i * dc_lsize : i \in 0 .. (NearBlocks - 1)} \cup {2 * dcache_size}

\* Contents of a block: what the device left in memory, what a core wrote
\* into its data cache, what sits modified in the secondary cache.
DEV == "dev"
L1DATA == "l1"
L2DATA == "l2"
NOT_DIRTY == "none"

\* The blocks the range loops of r4kcache.h visit: every line from
\* start & ~(lsize - 1) up to (end - 1) & ~(lsize - 1); the loop ends on
\* equality only, so it goes round the whole address space when the last
\* line lies below the first.
RangeBlocks(start, end, lsize) ==
    LET addr == align_down(start, lsize)
        aend == align_down(end - 1, lsize)
    IN  IF aend < addr THEN Tracked
        ELSE {b \in Tracked : b >= addr /\ b < aend + lsize}

\* The blocks of the line a single cache_op addresses.
LineBlocks(address, lsize) ==
    {b \in Tracked : b >= address /\ b < address + lsize}

\* The blocks the hit-type loops ingenic_wback_inv_dcache,
\* ingenic_wback_dcache and ingenic_inv_dcache of part_001 address:
\* INDEX_BASE up to INDEX_BASE + dcache_size.
IndexWindow == {b \in Tracked : b < dcache_size}

\* The blocks the routine bound to ingenic_blast_dcache reaches:
\* blast_dcache32 in c-ingenic.c and below MACH_INGENIC_JZ4750,
\* ingenic_wback_inv_dcache otherwise.
ingenic_blast_dcache_blocks ==
    IF cache_file = PART_001 /\ machtype_ge("MACH_INGENIC_JZ4750")
    THEN IndexWindow ELSE Tracked

\* Write-back of data-cache lines: modified blocks go to the secondary
\* cache when there is one, to memory otherwise, and are no longer dirty.
l1_wback(st, B) ==
    LET D == st.l1 \cap B
    IN  [l1 |-> st.l1 \ B,
         l2 |-> IF scache_size > 0
                THEN [b \in Tracked |-> IF b \in D THEN L1DATA ELSE st.l2[b]]
                ELSE st.l2,
         mem |-> IF scache_size > 0 THEN st.mem
                 ELSE [b \in Tracked |-> IF b \in D THEN L1DATA ELSE st.mem[b]]]

\* Invalidation of data-cache lines: modified blocks are dropped.
l1_inv(st, B) == [st EXCEPT !.l1 = @ \ B]

\* Write-back-invalidate of secondary-cache lines.
l2_wback_inv(st, B) ==
    [st EXCEPT
       !.l2 = [b \in Tracked |-> IF b \in B THEN NOT_DIRTY ELSE st.l2[b]],
       !.mem = [b \in Tracked |->
                   IF b \in B /\ st.l2[b] # NOT_DIRTY THEN st.l2[b]
                   ELSE st.mem[b]]]

\* Invalidation of secondary-cache lines.
l2_inv(st, B) ==
    [st EXCEPT
       !.l2 = [b \in Tracked |-> IF b \in B THEN NOT_DIRTY ELSE st.l2[b]]]

\* The effect of one primitive on the lines of the core that issues it.
prim_effect(st, pr) ==
    CASE pr.p = "ingenic_blast_dcache" ->
             l1_wback(st, ingenic_blast_dcache_blocks)
      [] pr.p = "blast_dcache32" -> l1_wback(st, Tracked)
      [] pr.p = "ingenic_wback_dcache" -> l1_wback(st, IndexWindow)
      [] pr.p = "ingenic_inv_dcache" -> l1_inv(st, IndexWindow)
      [] pr.p \in {"blast_dcache_range", "protected_blast_dcache_range",
                   "ingenic_wback_dcache_range"} ->
             l1_wback(st, RangeBlocks(pr.a, pr.b, dc_lsize))
      [] pr.p = "blast_inv_dcache_range" ->
             l1_inv(st, RangeBlocks(pr.a, pr.b, dc_lsize))
      [] pr.p \in {"blast_dcache32_page", "ingenic_blast_dcache_page"} ->
             l1_wback(st, RangeBlocks(pr.a, pr.a + PAGE_SIZE, dc_lsize))
      [] pr.p = "ingenic_blast_scache" ->
             IF scache_size = 0 THEN st ELSE l2_wback_inv(st, Tracked)
      [] pr.p \in {"ingenic_blast_scache_range", "blast_scache_range"} ->
             IF scache_size = 0 THEN st
             ELSE l2_wback_inv(st, RangeBlocks(pr.a, pr.b, sc_lsize))
      [] pr.p = "blast_inv_scache_range" ->
             IF scache_size = 0 THEN st
             ELSE l2_inv(st, RangeBlocks(pr.a, pr.b, sc_lsize))
      [] pr.p = "cache_op(Hit_Writeback_Inv_SD)" ->
             IF scache_size = 0 THEN st
             ELSE l2_wback_inv(st, LineBlocks(pr.a, sc_lsize))
      [] OTHER -> st

\* The effect of a sequence of primitives, in program order.
RECURSIVE apply_log(_, _)
apply_log(st, log) ==
    IF log = <<>> THEN st
    ELSE apply_log(prim_effect(st, Head(log)), Tail(log))

\* The lines as core c sees them.
lines_of(c) == [l1 |-> l1_dirty[c], l2 |-> l2_dirty, mem |-> memory]

\* ------------------------------------------------------------------------
\* Steps of a cache operation
\* ------------------------------------------------------------------------

\* An installed operation is called on core k: preempt_disable(), and on
\* the broadcast path smp_call_function_many(&cpu_foreign_map[k], func,
\* info, 1) when ingenic_op_needs_ipi().
cache_call(k, r) ==
    /\ c_stage = "idle"
    /\ k \in online
    /\ c_caller' = k
    /\ c_op' = r
    /\ LET sends == broadcast_func(r) # "none" /\ ingenic_op_needs_ipi
       IN  /\ queued' = IF sends THEN smp_call_targets(k, call_mask(k)) ELSE {}
           /\ scfm_calls' = IF sends THEN 1 ELSE 0
           /\ c_stage' = IF sends THEN "wait" ELSE "local"
    /\ ran' = [c \in CPUS |-> 0]
    /\ clog' = [c \in CPUS |-> <<>>]
    /\ preempt_count' = IF disables_preemption(r) THEN 1 ELSE 0
    /\ mem_entry' = memory
    /\ repeat' = (r = c_op /\ k = c_caller)
    /\ UNCHANGED <<cache_config, l1_dirty, l2_dirty, memory>>

\* A peer core takes the call-function interrupt and runs the function.
peer_runs(p) ==
    /\ p \in queued
    /\ LET log == func_log(broadcast_func(c_op), c_op)
           st == apply_log(lines_of(p), log)
       IN  /\ clog' = [clog EXCEPT ![p] = @ \o log]
           /\ l1_dirty' = [l1_dirty EXCEPT ![p] = st.l1]
           /\ l2_dirty' = st.l2
           /\ memory' = st.mem
    /\ ran' = [ran EXCEPT ![p] = @ + 1]
    /\ queued' = queued \ {p}
    /\ UNCHANGED <<cache_config, c_stage, c_caller, c_op, scfm_calls,
                   preempt_count, mem_entry, repeat>>

\* smp_call_function_many returns: with wait set, once every peer is done.
call_returns ==
    /\ c_stage = "wait"
    /\ smp_call_wait => queued = {}
    /\ c_stage' = "local"
    /\ UNCHANGED <<cache_config, c_caller, c_op, queued, ran, scfm_calls,
                   clog, preempt_count, cache_lines>>

\* The caller runs its own part of the operation and preempt_enable().
cache_local ==
    /\ c_stage = "local"
    /\ LET log == local_log(c_op)
           st == apply_log(lines_of(c_caller), log)
       IN  /\ clog' = [clog EXCEPT ![c_caller] = @ \o log]
           /\ l1_dirty' = [l1_dirty EXCEPT ![c_caller] = st.l1]
           /\ l2_dirty' = st.l2
           /\ memory' = st.mem
    /\ preempt_count' = 0
    /\ c_stage' = "ret"
    /\ UNCHANGED <<cache_config, c_caller, c_op, queued, ran, scfm_calls,
                   mem_entry, repeat>>

\* The operation returns to its caller.
cache_return ==
    /\ c_stage = "ret"
    /\ c_stage' = "idle"
    /\ UNCHANGED <<cache_config, c_caller, c_op, queued, ran, scfm_calls,
                   clog, preempt_count, cache_lines>>

\* ------------------------------------------------------------------------
\* ingenic_cache_init and the PM notifier
\* ------------------------------------------------------------------------

\* PM notifier calls in one behaviour of SpecInit.
MaxPmEvents == 2

\* A CPU type that is neither CPU_XBURST nor CPU_XBURST2.
CPU_OTHER == "CPU_OTHER"

\* The fields of struct cache_desc that hold the probed geometry: linesz
\* and ways are unsigned char, sets is unsigned short.
u8(x) == x % 256
u16(x) == x % 65536

\* 2 << n, 32 << n, 64 << n.
shl(x, n) == x * (2 ^ n)

\* c->icache.linesz, sets and ways as probe_pcache computes them, and their
\* product.
probe_icache_linesz(c1) == u8(shl(2, c1.il))
probe_icache_sets(c1) == u16(shl(32, (c1.is + 1) % 8))
probe_icache_ways(c1) == u8(1 + c1.ia)
probe_icache_size(c1) ==
    probe_icache_sets(c1) * probe_icache_ways(c1) * probe_icache_linesz(c1)

\* The same for the data cache.
probe_dcache_linesz(c1) == u8(shl(2, c1.dl))
probe_dcache_sets(c1) == u16(shl(32, (c1.ds + 1) % 8))
probe_dcache_ways(c1) == u8(1 + c1.da)
probe_dcache_size(c1) ==
    probe_dcache_sets(c1) * probe_dcache_ways(c1) * probe_dcache_linesz(c1)

\* c->scache.linesz, sets and ways as probe_scache computes them from
\* config2, with the values forced for MACH_INGENIC_JZ4780.
probe_scache_linesz(c2) == u8(shl(2, c2.sl))
probe_scache_sets(c2) ==
    IF mips_machtype = "MACH_INGENIC_JZ4780" THEN 1024
    ELSE u16(shl(64, c2.ss))
probe_scache_ways(c2) ==
    IF mips_machtype = "MACH_INGENIC_JZ4780" THEN 4 ELSE u8(1 + c2.sa)
probe_scache_size(c2) ==
    probe_scache_ways(c2) * probe_scache_sets(c2) * probe_scache_linesz(c2)

\* Values of the config1 fields: line sizes of 32 bytes (field 4) and of
\* 256 bytes (field 7), 32 sets (field 7) and 64 sets (field 0), one way,
\* with and without the M bit that announces config2.
Config1Values ==
    {[il |-> il, is |-> is, ia |-> 0, dl |-> dl, ds |-> ds, da |-> 0, m |-> m] :
        il \in {4, 7}, dl \in {4, 7}, is \in {0, 7}, ds \in {0, 7},
        m \in BOOLEAN}

\* Values of the config2 fields: line sizes of 32, 64, 128 and 256 bytes,
\* 64 and 65536 sets, one way.
Config2Values ==
    {[sl |-> sl, ss |-> ss, sa |-> 0] : sl \in {4, 5, 6, 7}, ss \in {0, 10}}

\* The fields of a config2 register that does not exist.
Config2None == [sl |-> 0, ss |-> 0, sa |-> 0]

\* A setup that binds the blast routine by line size alone.
blast_scache_by_linesz(size, lsize) ==
    IF lsize = 64 THEN "blast_scache64" ELSE "blast_scache32"

\* ingenic_blast_scache_setup: the routine bound to ingenic_blast_scache
\* (and, in c-ingenic.c, to ingenic_blast_scache_range); the pointer stays
\* NULL for a line size the setup does not know.
ingenic_blast_scache_setup(size, lsize) ==
    IF size = 0 THEN "ingenic_cache_noop"
    ELSE IF lsize = 32 THEN "blast_scache32"
    ELSE IF lsize = 64 THEN "blast_scache64"
    ELSE IF lsize = 128 /\ cache_file = C_INGENIC_C THEN "blast_scache128"
    ELSE "NULL"

\* _CACHE_SHIFT of the page-table bits.
CACHE_SHIFT == 9

\* read_c0_config() & CONF_CM_CMASK: the low three bits.
CONF_CM_CMASK == 7
conf_cm(k0) == k0 % (CONF_CM_CMASK + 1)

\* A setup that takes the hardware field on every run.
cca_from_hardware(v, k0) == conf_cm(k0)

\* if (cca < 0 || cca > 7) cca = read_c0_config() & CONF_CM_CMASK.
cca_chosen(v, k0) == IF v < 0 \/ v > 7 THEN conf_cm(k0) ELSE v

\* ingenic_coherency_setup().
ingenic_coherency_setup ==
    /\ cca' = cca_chosen(cca, c0_config_k0)
    /\ page_cachable_default' = shl(cca', CACHE_SHIFT)
    /\ c0_config_k0' = cca'

init_rest == <<config1, config2, cca_cmdline, npm, last_pm>>

\* probe_pcache(): the sizes of the primary caches; a size of zero halts
\* the kernel.
probe_pcache ==
    /\ ~panicked /\ i_stage = "probe_pcache"
    /\ icache_size' = probe_icache_size(config1)
    /\ IF probe_icache_size(config1) = 0
       THEN /\ panicked' = TRUE
            /\ UNCHANGED <<dcache_size, dc_lsize, i_stage>>
       ELSE /\ dcache_size' = probe_dcache_size(config1)
            /\ dc_lsize' = probe_dcache_linesz(config1)
            /\ panicked' = (probe_dcache_size(config1) = 0)
            /\ i_stage' = IF probe_dcache_size(config1) = 0 THEN i_stage
                          ELSE "probe_scache"
    /\ UNCHANGED <<scache_size, sc_lsize, clog, scache_not_present,
                   blast_scache_fn, dma_ops, cca, c0_config_k0, page_cachable_default,
                   cca_at_init, init_rest>>

\* probe_scache(): the secondary cache is flagged not present until the
\* probe has found a size that is not zero; without config2, and on a size
\* of zero, it returns.
probe_scache ==
    /\ ~panicked /\ i_stage = "probe_scache"
    /\ IF ~config1.m
       THEN /\ scache_not_present' = TRUE
            /\ UNCHANGED <<scache_size, sc_lsize, clog>>
       ELSE /\ sc_lsize' = probe_scache_linesz(config2)
            /\ scache_size' = probe_scache_size(config2)
            /\ scache_not_present' = (probe_scache_size(config2) = 0)
            /\ clog' = IF probe_scache_size(config2) # 0
                             /\ ~machtype_ge("MACH_INGENIC_X2000")
                       THEN [clog EXCEPT ![0] = Append(@,
                                Whole("write_c0_ingenic_errctl(XBURST_ERRCTL_WST_DIS)"))]
                       ELSE clog
    /\ i_stage' = "setup"
    /\ UNCHANGED <<panicked, icache_size, dcache_size, dc_lsize,
                   blast_scache_fn, dma_ops, cca,
                   c0_config_k0, page_cachable_default, cca_at_init,
                   init_rest>>

\* ingenic_blast_pcache_setup(); ingenic_blast_scache_setup().
blast_setup ==
    /\ ~panicked /\ i_stage = "setup"
    /\ blast_scache_fn' = ingenic_blast_scache_setup(scache_size, sc_lsize)
    /\ i_stage' = "install"
    /\ UNCHANGED <<panicked, icache_size, dcache_size, dc_lsize, scache_size,
                   sc_lsize, clog, scache_not_present, dma_ops, cca, c0_config_k0,
                   page_cachable_default, cca_at_init, init_rest>>

\* No routine is installed yet.
NoDmaOps == [wback_inv |-> "NULL", wback |-> "NULL", inv |-> "NULL"]

\* The dma routines ingenic_cache_init installs: c-ingenic.c installs
\* ingenic_dma_cache_wback_inv twice and then chooses _dma_cache_inv by the
\* CPU type; part_001 chooses all three by the CPU type.
dma_ops_installed(file, cpu) ==
    IF file = C_INGENIC_C
    THEN [wback_inv |-> "ingenic_dma_cache_wback_inv",
          wback |-> "ingenic_dma_cache_wback_inv",
          inv |-> IF cpu = CPU_XBURST THEN "xburst_dma_cache_inv"
                  ELSE IF cpu = CPU_XBURST2 THEN "xburst2_dma_cache_inv"
                  ELSE "NULL"]
    ELSE IF cpu = CPU_XBURST
    THEN [wback_inv |-> "xburst_dma_cache_wback_inv",
          wback |-> "xburst_dma_cache_wback",
          inv |-> "xburst_dma_cache_inv"]
    ELSE IF cpu = CPU_XBURST2
    THEN [wback_inv |-> "xburst2_dma_cache_wback_inv",
          wback |-> "xburst2_dma_cache_wback",
          inv |-> "xburst2_dma_cache_inv"]
    ELSE NoDmaOps

\* The operations are installed; the dma operations are chosen by
\* current_cpu_type(), and any other CPU type halts the kernel.
install_ops ==
    /\ ~panicked /\ i_stage = "install"
    /\ panicked' = (cpu_type \notin {CPU_XBURST, CPU_XBURST2})
    /\ dma_ops' = dma_ops_installed(cache_file, cpu_type)
    /\ i_stage' = IF panicked' THEN i_stage ELSE "flush"
    /\ UNCHANGED <<icache_size, dcache_size, dc_lsize, scache_size, sc_lsize,
                   clog, scache_not_present, blast_scache_fn, cca,
                   c0_config_k0, page_cachable_default, cca_at_init,
                   init_rest>>

\* build_clear_page(); build_copy_page(); the local flush of both primary
\* caches.
init_flush ==
    /\ ~panicked /\ i_stage = "flush"
    /\ clog' = [clog EXCEPT ![0] = @ \o local_ingenic_flush_cache_all]
    /\ i_stage' = "coherency"
    /\ UNCHANGED <<panicked, icache_size, dcache_size, dc_lsize, scache_size,
                   sc_lsize, scache_not_present, blast_scache_fn, dma_ops, cca,
                   c0_config_k0, page_cachable_default, cca_at_init,
                   init_rest>>

\* ingenic_coherency_setup(); board_cache_error_setup is set;
\* ingenic_cache_init returns.
init_coherency ==
    /\ ~panicked /\ i_stage = "coherency"
    /\ ingenic_coherency_setup
    /\ cca_at_init' = cca'
    /\ i_stage' = "done"
    /\ UNCHANGED <<panicked, icache_size, dcache_size, dc_lsize, scache_size,
                   sc_lsize, clog, scache_not_present, blast_scache_fn, dma_ops,
                   init_rest>>

CPU_PM_ENTER == "CPU_PM_ENTER"
CPU_PM_ENTER_FAILED == "CPU_PM_ENTER_FAILED"
CPU_PM_EXIT == "CPU_PM_EXIT"
PmEvents == {CPU_PM_ENTER, CPU_PM_ENTER_FAILED, CPU_PM_EXIT}

\* A notifier that binds ingenic_blast_scache anew on each run.
pm_notifier_rebinds(cmd) ==
    /\ ~panicked /\ i_stage = "done" /\ npm < MaxPmEvents
    /\ blast_scache_fn' = "ingenic_cache_noop"
    /\ npm' = npm + 1
    /\ last_pm' = cmd
    /\ UNCHANGED <<panicked, icache_size, dcache_size, dc_lsize, scache_size,
                   sc_lsize, clog, i_stage, config1, config2,
                   scache_not_present, dma_ops, cca, page_cachable_default,
                   c0_config_k0, cca_cmdline, cca_at_init>>

\* ingenic_cache_pm_notifier(self, cmd, v): CPU_PM_ENTER_FAILED and
\* CPU_PM_EXIT run ingenic_coherency_setup(); returns NOTIFY_OK.
ingenic_cache_pm_notifier(cmd) ==
    /\ ~panicked /\ i_stage = "done" /\ npm < MaxPmEvents
    /\ IF cmd \in {CPU_PM_ENTER_FAILED, CPU_PM_EXIT}
       THEN ingenic_coherency_setup
       ELSE UNCHANGED <<cca, page_cachable_default, c0_config_k0>>
    /\ npm' = npm + 1
    /\ last_pm' = cmd
    /\ UNCHANGED <<panicked, icache_size, dcache_size, dc_lsize, scache_size,
                   sc_lsize, clog, i_stage, config1, config2,
                   scache_not_present, blast_scache_fn, dma_ops, cca_cmdline,
                   cca_at_init>>

\* Values of the coherency field the hardware comes up with.
ResetCoherency == {2, 5}

\* The core loses its config register in a low-power state: the coherency
\* field comes back with a reset value.
config_lost(k0) ==
    /\ ~panicked /\ i_stage = "done"
    /\ last_pm = CPU_PM_ENTER
    /\ k0 # c0_config_k0
    /\ c0_config_k0' = k0
    /\ last_pm' = "lost"
    /\ UNCHANGED <<panicked, icache_size, dcache_size, dc_lsize, scache_size,
                   sc_lsize, clog, i_stage, config1, config2,
                   scache_not_present, blast_scache_fn, dma_ops, cca,
                   page_cachable_default, cca_cmdline, cca_at_init, npm>>

\* An installed dma operation is called on core 0 after the init and runs
\* to its return; no line is modified in any cache here, so its primitives
\* change no line.
dma_after_init(r) ==
    /\ ~panicked /\ i_stage = "done"
    /\ c_op = NoRequest
    /\ c_op' = r
    /\ c_caller' = 0
    /\ clog' = [c \in CPUS |-> IF c = 0 THEN dma_installed(r.name, r.a, r.b)
                               ELSE <<>>]
    /\ UNCHANGED <<panicked, cache_config, c_stage, queued, ran, scfm_calls,
                   preempt_count, cache_lines, init_vars>>

\* ------------------------------------------------------------------------
\* CPU hotplug (c-ingenic.c)
\* ------------------------------------------------------------------------

\* Times one core is taken down in one behaviour of SpecHotplug.
MaxDies == 2

ipi_quiet == <<opk, todo, cur, act, mbox, hpc, h_action, h_status, sched_ipi,
               call_ipi, h_log, owed, trip, nops>>

boot_rest == <<corectrl, cpu_clock_gates, jz4780_cpu_entry_sp,
               jz4780_cpu_entry_gp, wbuf, b_cpu, b_idle, b_res, b_ctrl, s_sp, s_gp,
               expect, overtaken, nboots>>

cache_rest == <<cache_file, mips_machtype, cpu_type, dcache_size, icache_size,
                scache_size, sc_lsize, dc_lsize, c_stage, c_caller, c_op,
                queued, ran, scfm_calls, clog, preempt_count, cache_lines>>

\* cpumask_clear_cpu(cpu, &mask).
cpumask_clear_cpu(cpu, mask) == mask \ {cpu}

\* The sleep bit of core c in the core-status register (bit c + 16): set
\* while the core sits in the wait instruction of __play_dead.
corestatus_sleep(c) == sec[c] = "pd_wait"

\* The kernel runs one hotplug operation at a time: none starts while a
\* boot, a disable or a die is in progress on any core.
hotplug_idle == \A j \in CPUS : pc[j] \in {"idle", "offline"}

\* jz4780_cpu_disable() is called on core c, a running secondary core:
\* local_irq_disable(); set_cpu_online(cpu, false).
jz4780_cpu_disable(c) ==
    /\ ~panicked /\ ndies[c] < MaxDies
    /\ hotplug_idle
    /\ pc[c] = "idle" /\ hpc[c] = "none" /\ sec[c] = "up"
    /\ c \in online /\ down[c] = "no"
    /\ online' = online \ {c}
    /\ pc' = [pc EXCEPT ![c] = "dis_lock"]
    /\ down' = [down EXCEPT ![c] = "disable"]
    /\ clears' = [clears EXCEPT ![c] = 0]
    /\ ndies' = [ndies EXCEPT ![c] = @ + 1]
    /\ UNCHANGED <<smp_file, panicked, smp_lock, mailbox, mirqp, ipi_quiet,
                   boot_vars, cache_rest, reim_irqm, d_cpu, pd_stat>>

\* spin_lock(&smp_lock) of jz4780_cpu_disable.
disable_lock(c) ==
    /\ ~panicked
    /\ pc[c] = "dis_lock"
    /\ smp_lock = {}
    /\ smp_lock' = {c}
    /\ pc' = [pc EXCEPT ![c] = "dis_reim"]
    /\ UNCHANGED <<smp_file, panicked, mailbox, mirqp, ipi_quiet, boot_vars,
                   cache_vars, more_vars>>

\* A re-routing that writes the routing bit of core 0 alone.
disable_reroute_only(c) ==
    /\ ~panicked
    /\ pc[c] = "dis_reim"
    /\ reim_irqm' = IF REIM_IRQM(c) \in reim_irqm THEN {REIM_IRQM(0)}
                    ELSE reim_irqm
    /\ pc' = [pc EXCEPT ![c] = "dis_unlock"]
    /\ UNCHANGED <<smp_file, panicked, smp_lock, mailbox, mirqp, ipi_quiet,
                   boot_vars, cache_vars, down, d_cpu, clears, ndies, pd_stat>>

\* status = read_c0_reim(); if (status & (1 << (cpu + 8))) the bit of this
\* core is cleared, the bit of core 0 is set and the register written.
disable_reroute(c) ==
    /\ ~panicked
    /\ pc[c] = "dis_reim"
    /\ reim_irqm' = IF REIM_IRQM(c) \in reim_irqm
                    THEN (reim_irqm \ {REIM_IRQM(c)}) \cup {REIM_IRQM(0)}
                    ELSE reim_irqm
    /\ pc' = [pc EXCEPT ![c] = "dis_unlock"]
    /\ UNCHANGED <<smp_file, panicked, smp_lock, mailbox, mirqp, ipi_quiet,
                   boot_vars, cache_vars, down, d_cpu, clears, ndies, pd_stat>>

\* spin_unlock(&smp_lock); return 0. Local interrupts stay disabled.
disable_unlock(c) ==
    /\ ~panicked
    /\ pc[c] = "dis_unlock"
    /\ smp_lock' = smp_lock \ {c}
    /\ pc' = [pc EXCEPT ![c] = "offline"]
    /\ down' = [down EXCEPT ![c] = "disabled"]
    /\ UNCHANGED <<smp_file, panicked, mailbox, mirqp, ipi_quiet, boot_vars,
                   cache_vars, reim_irqm, d_cpu, clears, ndies, pd_stat>>

\* The switch of play_dead: case 0 and case 1 clear the core's mailbox.
play_dead_cases == {0, 1}

\* play_dead() on the core that was disabled: local_irq_disable(); the
\* mailbox of core 0 or 1 is cleared. smp_lock is not taken.
play_dead(c) ==
    /\ ~panicked
    /\ pc[c] = "offline" /\ sec[c] = "up"
    /\ down[c] \in {"disabled", "die"}
    /\ mailbox' = IF c \in play_dead_cases
                  THEN [mailbox EXCEPT ![c] = {}] ELSE mailbox
    /\ sec' = [sec EXCEPT ![c] = "pd_clr_read"]
    /\ UNCHANGED <<smp_file, panicked, smp_lock, mirqp, pc, ipi_quiet,
                   boot_rest, clk_prepared, clk_enabled, cpu_running,
                   cache_vars, more_vars>>

\* smp_clr_pending(1 << cpu), first half: stat = read_c0_corestatus().
play_dead_clr_read(c) ==
    /\ ~panicked
    /\ sec[c] = "pd_clr_read"
    /\ pd_stat' = [pd_stat EXCEPT ![c] = mirqp]
    /\ sec' = [sec EXCEPT ![c] = "pd_clr_write"]
    /\ UNCHANGED <<smp_file, panicked, smp_lock, mailbox, mirqp, pc,
                   ipi_quiet, boot_rest, clk_prepared, clk_enabled,
                   cpu_running, cache_vars, reim_irqm, down, d_cpu, clears,
                   ndies, init_vars>>

\* smp_clr_pending, second half: stat &= ~((mask) & 0xff);
\* write_c0_corestatus(stat); the core enters the loop.
play_dead_clr_write(c) ==
    /\ ~panicked
    /\ sec[c] = "pd_clr_write"
    /\ mirqp' = pd_stat[c] \ {c}
    /\ pd_stat' = [pd_stat EXCEPT ![c] = {}]
    /\ sec' = [sec EXCEPT ![c] = "pd_spin"]
    /\ UNCHANGED <<smp_file, panicked, smp_lock, mailbox, pc, ipi_quiet,
                   boot_rest, clk_prepared, clk_enabled, cpu_running,
                   cache_vars, reim_irqm, down, d_cpu, clears, ndies,
                   init_vars>>

\* An inner loop that is left whatever the running bit reads.
play_dead_spin_untested(c) ==
    /\ ~panicked
    /\ sec[c] = "pd_spin"
    /\ sec' = [sec EXCEPT ![c] = "pd_blast"]
    /\ UNCHANGED <<smp_file, panicked, ipi_vars, boot_rest, clk_prepared,
                   clk_enabled, cpu_running, cache_vars, more_vars>>

\* while (cpumask_test_cpu(cpu, &cpu_running)) ; the core leaves the inner
\* loop once its running bit reads clear.
play_dead_spin(c) ==
    /\ ~panicked
    /\ sec[c] = "pd_spin"
    /\ c \notin cpu_running
    /\ sec' = [sec EXCEPT ![c] = "pd_blast"]
    /\ UNCHANGED <<smp_file, panicked, ipi_vars, boot_rest, clk_prepared,
                   clk_enabled, cpu_running, cache_vars, more_vars>>

\* The primitives play_dead issues before it sleeps.
play_dead_blast == <<Whole("blast_icache32"), Whole("blast_dcache32")>>

\* blast_icache32(); blast_dcache32(); do_play_dead(): sync, wait. The core
\* stays in wait until it is reset.
play_dead_wait(c) ==
    /\ ~panicked
    /\ sec[c] = "pd_blast"
    /\ sec' = [sec EXCEPT ![c] = "pd_wait"]
    /\ LET st == apply_log(lines_of(c), play_dead_blast)
       IN  /\ l1_dirty' = [l1_dirty EXCEPT ![c] = st.l1]
           /\ l2_dirty' = st.l2
           /\ memory' = st.mem
    /\ UNCHANGED <<smp_file, panicked, ipi_vars, boot_rest, clk_prepared,
                   clk_enabled, cpu_running, cache_config, c_stage, c_caller,
                   c_op, queued, ran, scfm_calls, clog, preempt_count,
                   mem_entry, repeat, more_vars>>

\* jz4780_cpu_die(cpu) is called on core k for a core that has disabled
\* itself: local_irq_save(flags).
jz4780_cpu_die(k, cpu) ==
    /\ ~panicked
    /\ pc[k] = "idle" /\ hpc[k] = "none" /\ sec[k] = "up" /\ k \in online
    /\ k # cpu /\ down[cpu] = "disabled"
    /\ pc' = [pc EXCEPT ![k] = "die_clear"]
    /\ d_cpu' = [d_cpu EXCEPT ![k] = cpu]
    /\ down' = [down EXCEPT ![cpu] = "die"]
    /\ UNCHANGED <<smp_file, panicked, smp_lock, mailbox, mirqp, ipi_quiet,
                   boot_vars, cache_vars, reim_irqm, clears, ndies, pd_stat>>

\* A die that goes from the clearing of the running bit to the clock
\* gate without a read of the core-status register.
die_clear_running_unpolled(k) ==
    /\ ~panicked
    /\ pc[k] = "die_clear"
    /\ cpu_running' = cpumask_clear_cpu(d_cpu[k], cpu_running)
    /\ clears' = [clears EXCEPT ![d_cpu[k]] = @ + 1]
    /\ pc' = [pc EXCEPT ![k] = "die_clk"]
    /\ UNCHANGED <<smp_file, panicked, smp_lock, mailbox, mirqp, ipi_quiet,
                   boot_rest, clk_prepared, clk_enabled, sec, cache_vars,
                   reim_irqm, down, d_cpu, ndies, pd_stat>>

\* cpumask_clear_cpu(cpu, &cpu_running); wmb().
die_clear_running(k) ==
    /\ ~panicked
    /\ pc[k] = "die_clear"
    /\ cpu_running' = cpumask_clear_cpu(d_cpu[k], cpu_running)
    /\ clears' = [clears EXCEPT ![d_cpu[k]] =
                     IF d_cpu[k] \in cpu_running
                            /\ d_cpu[k] \notin cpu_running'
                     THEN @ + 1 ELSE @]
    /\ pc' = [pc EXCEPT ![k] = "die_poll"]
    /\ UNCHANGED <<smp_file, panicked, smp_lock, mailbox, mirqp, ipi_quiet,
                   boot_rest, clk_prepared, clk_enabled, sec, cache_vars,
                   reim_irqm, down, d_cpu, ndies, pd_stat>>

\* A polling loop that gives up: it is left whatever the read finds.
die_poll_timeout(k) ==
    /\ ~panicked
    /\ pc[k] = "die_poll"
    /\ pc' = [pc EXCEPT ![k] = "die_clk"]
    /\ UNCHANGED <<smp_file, panicked, smp_lock, mailbox, mirqp, ipi_quiet,
                   boot_vars, cache_vars, more_vars>>

\* do { status = read_c0_corestatus(); } while (!(status & (1 << (cpu +
\* 16)))): the loop is left by the read that finds the sleep bit set; a
\* read that finds it clear changes nothing.
die_poll(k) ==
    /\ ~panicked
    /\ pc[k] = "die_poll"
    /\ corestatus_sleep(d_cpu[k])
    /\ pc' = [pc EXCEPT ![k] = "die_clk"]
    /\ UNCHANGED <<smp_file, panicked, smp_lock, mailbox, mirqp, ipi_quiet,
                   boot_vars, cache_vars, more_vars>>

\* One count less, never below zero (clk_disable and clk_unprepare warn
\* and return on a count of zero).
clk_put_count(n) == IF n > 0 THEN n - 1 ELSE 0

\* clk_disable_unprepare(cpu_clock_gates[cpu]), a no-op on a NULL handle;
\* local_irq_restore(flags); return.
die_clk_disable(k) ==
    /\ ~panicked
    /\ pc[k] = "die_clk"
    /\ IF d_cpu[k] \in cpu_clock_gates
       THEN /\ clk_enabled' = [clk_enabled EXCEPT ![d_cpu[k]] = clk_put_count(@)]
            /\ clk_prepared' = [clk_prepared EXCEPT ![d_cpu[k]] = clk_put_count(@)]
       ELSE UNCHANGED <<clk_enabled, clk_prepared>>
    /\ pc' = [pc EXCEPT ![k] = "idle"]
    /\ down' = [down EXCEPT ![d_cpu[k]] = "done"]
    /\ d_cpu' = [d_cpu EXCEPT ![k] = 0]
    /\ UNCHANGED <<smp_file, panicked, smp_lock, mailbox, mirqp, ipi_quiet,
                   boot_rest, cpu_running, sec, cache_vars, reim_irqm, clears,
                   ndies, pd_stat>>

\* The core that entered the kernel after a boot goes online again
\* (start_secondary of the generic SMP code) and runs its idle loop.
start_secondary(c) ==
    /\ ~panicked
    /\ pc[c] = "offline" /\ sec[c] = "up" /\ down[c] = "done"
    /\ online' = online \cup {c}
    /\ pc' = [pc EXCEPT ![c] = "idle"]
    /\ down' = [down EXCEPT ![c] = "no"]
    /\ UNCHANGED <<smp_file, panicked, smp_lock, mailbox, mirqp, ipi_quiet,
                   boot_vars, cache_rest, reim_irqm, d_cpu, clears, ndies, pd_stat>>

\* jz4780_smp_finish() is called on core c by the start_secondary of the
\* generic SMP code, after the core was set online and with local
\* interrupts still disabled.
jz4780_smp_finish(c) ==
    /\ ~panicked
    /\ pc[c] = "offline" /\ sec[c] = "up" /\ down[c] = "done"
    /\ online' = online \cup {c}
    /\ pc' = [pc EXCEPT ![c] = "fin_lock"]
    /\ down' = [down EXCEPT ![c] = "no"]
    /\ UNCHANGED <<smp_file, panicked, smp_lock, mailbox, mirqp, ipi_quiet,
                   boot_vars, cache_rest, reim_irqm, d_cpu, clears, ndies, pd_stat>>

\* spin_lock(&smp_lock) of jz4780_smp_finish.
finish_lock(c) ==
    /\ ~panicked
    /\ pc[c] = "fin_lock"
    /\ smp_lock = {}
    /\ smp_lock' = {c}
    /\ pc' = [pc EXCEPT ![c] = "fin_reim"]
    /\ UNCHANGED <<smp_file, panicked, mailbox, mirqp, ipi_quiet, boot_vars,
                   cache_vars, hot_vars>>

\* reim = read_c0_reim(); reim |= REIM_MBOXIRQ0M << smp_processor_id();
\* write_c0_reim(reim).
finish_unmask(c) ==
    /\ ~panicked
    /\ pc[c] = "fin_reim"
    /\ reim_irqm' = reim_irqm \cup {REIM_MBOXIRQM(c)}
    /\ pc' = [pc EXCEPT ![c] = "fin_unlock"]
    /\ UNCHANGED <<smp_file, panicked, smp_lock, mailbox, mirqp, ipi_quiet,
                   boot_vars, cache_vars, down, d_cpu, clears, ndies, pd_stat>>

\* spin_unlock(&smp_lock); change_c0_status(ST0_IM, ...); the core goes on
\* to its idle loop, which enables interrupts.
finish_unlock(c) ==
    /\ ~panicked
    /\ pc[c] = "fin_unlock"
    /\ smp_lock' = smp_lock \ {c}
    /\ pc' = [pc EXCEPT ![c] = "idle"]
    /\ UNCHANGED <<smp_file, panicked, mailbox, mirqp, ipi_quiet, boot_vars,
                   cache_vars, hot_vars>>

\* ------------------------------------------------------------------------
\* Initial states of the cache code
\* ------------------------------------------------------------------------

\* What ingenic_cache_init has probed and installed.
InitCacheConfig ==
    /\ cache_file \in CacheFiles
    /\ \E pl \in Platforms :
           /\ mips_machtype = pl.mach
           /\ cpu_type = pl.cpu
           /\ dcache_size = pl.dcache
           /\ icache_size = pl.icache
           /\ scache_size = pl.scache
           /\ sc_lsize = pl.sc_lsize
           /\ dc_lsize = pl.dc_lsize

\* No cache operation in progress.
InitCacheRun ==
    /\ c_stage = "idle"
    /\ c_caller = 0
    /\ c_op = NoRequest
    /\ queued = {}
    /\ ran = [c \in CPUS |-> 0]
    /\ scfm_calls = 0
    /\ clog = [c \in CPUS |-> <<>>]
    /\ preempt_count = 0
    /\ repeat = FALSE

\* No tracked block is modified in any cache.
InitLinesClean ==
    /\ l1_dirty = [c \in CPUS |-> {}]
    /\ l2_dirty = [b \in Tracked |-> NOT_DIRTY]
    /\ memory = [b \in Tracked |-> DEV]
    /\ mem_entry = [b \in Tracked |-> DEV]

\* The cache state the other specifications keep fixed.
InitCacheQuiet ==
    /\ cache_file = C_INGENIC_C
    /\ \E pl \in Platforms :
           /\ pl.mach = "MACH_INGENIC_JZ4780"
           /\ mips_machtype = pl.mach
           /\ cpu_type = pl.cpu
           /\ dcache_size = pl.dcache
           /\ icache_size = pl.icache
           /\ scache_size = pl.scache
           /\ sc_lsize = pl.sc_lsize
           /\ dc_lsize = pl.dc_lsize
    /\ online = CPUS
    /\ InitCacheRun
    /\ InitLinesClean

\* ------------------------------------------------------------------------
\* Specification of the mailbox IPI transport
\* ------------------------------------------------------------------------

\* The state jz4780_smp_setup leaves: mailboxes and pending bits clear, the
\* lock free, every core in its idle loop.
InitIpi ==
    /\ smp_file \in SmpFiles
    /\ panicked = FALSE
    /\ smp_lock = {}
    /\ mailbox = [c \in CPUS |-> {}]
    /\ mirqp = {}
    /\ pc = [c \in CPUS |-> "idle"]
    /\ opk = [c \in CPUS |-> "none"]
    /\ todo = [c \in CPUS |-> {}]
    /\ cur = [c \in CPUS |-> 0]
    /\ act = [c \in CPUS |-> {}]
    /\ mbox = [c \in CPUS |-> {}]
    /\ hpc = [c \in CPUS |-> "none"]
    /\ h_action = [c \in CPUS |-> {}]
    /\ h_status = [c \in CPUS |-> {}]
    /\ sched_ipi = [c \in CPUS |-> 0]
    /\ call_ipi = [c \in CPUS |-> 0]
    /\ h_log = [c \in CPUS |-> <<>>]
    /\ owed = [c \in CPUS |-> {}]
    /\ trip = [c \in CPUS |-> NoTrip]
    /\ nops = 0

\* No core is being taken down.
InitHotIdle ==
    /\ reim_irqm = reim_masks({0})
    /\ down = [c \in CPUS |-> "no"]
    /\ d_cpu = [c \in CPUS |-> 0]
    /\ clears = [c \in CPUS |-> 0]
    /\ ndies = [c \in CPUS |-> 0]
    /\ pd_stat = [c \in CPUS |-> {}]
    /\ setup = SetupReturned
    /\ wait_irqoff = NotIdle

\* ingenic_cache_init has run on registers that give the cache state
\* above, and no PM event has been notified.
InitCacheInitDone ==
    /\ i_stage = "done"
    /\ config1 \in {c \in Config1Values :
                        /\ probe_icache_size(c) = icache_size
                        /\ probe_dcache_size(c) = dcache_size
                        /\ c.m = (scache_size > 0)}
    /\ config2 \in IF scache_size = 0 THEN {Config2None}
                   ELSE {c \in Config2Values :
                            /\ c.ss = 0
                            /\ probe_scache_size(c) = scache_size}
    /\ scache_not_present = (scache_size = 0)
    /\ blast_scache_fn = ingenic_blast_scache_setup(scache_size, sc_lsize)
    /\ dma_ops = dma_ops_installed(cache_file, cpu_type)
    /\ cca = 3
    /\ c0_config_k0 = 3
    /\ page_cachable_default = shl(3, CACHE_SHIFT)
    /\ cca_cmdline = -1
    /\ cca_at_init = 3
    /\ npm = 0
    /\ last_pm = "none"

\* The state the specifications that do not exercise them keep fixed.
InitMoreIdle == InitHotIdle /\ InitCacheInitDone

\* No boot sequence is in flight.
InitBootQuiet ==
    /\ jz4780_cpu_entry_sp = ZeroWord
    /\ jz4780_cpu_entry_gp = ZeroWord
    /\ wbuf = <<>>
    /\ b_cpu = [c \in CPUS |-> 0]
    /\ b_idle = [c \in CPUS |-> 0]
    /\ b_ctrl = [c \in CPUS |-> {}]
    /\ b_res = NoResult
    /\ s_sp = [c \in CPUS |-> ZeroWord]
    /\ s_gp = [c \in CPUS |-> ZeroWord]
    /\ expect = [c \in CPUS |-> <<ZeroWord, ZeroWord>>]
    /\ overtaken = [c \in CPUS |-> FALSE]
    /\ nboots = 0

\* The boot state common to all specifications: nothing in flight.
InitBootIdle ==
    /\ clk_prepared = [c \in CPUS |-> 0]
    /\ clk_enabled = [c \in CPUS |-> 0]
    /\ InitBootQuiet

\* The IPI transport is exercised with all four cores up and running.
Init ==
    /\ InitIpi
    /\ InitBootIdle
    /\ corectrl = {CORECTRL_RPC(c) : c \in CPUS}
    /\ cpu_clock_gates = CPUS
    /\ cpu_running = (CPUS \ {0}) \cup {setup_running_bit(smp_file, NR_CPUS)}
    /\ sec = [c \in CPUS |-> "up"]
    /\ InitCacheQuiet
    /\ InitMoreIdle

IpiStep ==
    \/ \E c \in CPUS, cpu \in SendTargets, action \in SendActions :
           jz4780_send_ipi_single(c, cpu, action)
    \/ \E c \in CPUS, mask \in SendMasks, action \in SendActions :
           jz4780_send_ipi_mask(c, mask, action)
    \/ \E c \in CPUS : send_lock(c)
    \/ \E c \in CPUS : send_locked_read(c)
    \/ \E c \in CPUS : send_locked_write(c)
    \/ \E c \in CPUS : send_unlock(c)
    \/ \E c \in CPUS : mbox_irq(c)
    \/ \E c \in CPUS : handler_lock(c)
    \/ \E c \in CPUS : handler_read(c)
    \/ \E c \in CPUS : handler_clear(c)
    \/ \E c \in CPUS : handler_status_read(c)
    \/ \E c \in CPUS : handler_status_write(c)
    \/ \E c \in CPUS : handler_unlock(c)
    \/ \E c \in CPUS : handler_dispatch(c)

Next == IpiStep /\ UNCHANGED <<boot_vars, cache_vars, more_vars>>

Spec == Init /\ [][Next]_vars

\* ------------------------------------------------------------------------
\* Specification of the boot sequencer
\* ------------------------------------------------------------------------

\* The state after jz4780_smp_setup and jz4780_smp_prepare_cpus on the
\* primary core: core 0 is up, every other core is held in reset, the RPC
\* bit of every core node is set, and the clock-gate handles are resolved
\* for all cores or for none.
InitBoot ==
    /\ InitIpi
    /\ InitBootIdle
    /\ corectrl = {CORECTRL_RPC(c) : c \in CPUS}
                      \cup {CORECTRL_SWRST(c) : c \in CPUS \ {0}}
    /\ cpu_clock_gates \in {CPUS, {}}
    /\ cpu_running = {setup_running_bit(smp_file, NR_CPUS)}
    /\ sec = [c \in CPUS |-> IF c = 0 THEN "up" ELSE "reset"]
    /\ InitCacheQuiet
    /\ InitMoreIdle

BootStep ==
    \/ \E k \in CPUS, cpu \in CPUS \ {0} :
           jz4780_boot_secondary(k, cpu, idle_thread(cpu))
    \/ \E k \in CPUS : boot_lock(k)
    \/ \E k \in CPUS : boot_assert_reset(k)
    \/ \E k \in CPUS, prep_ok \in BOOLEAN, en_ok \in BOOLEAN :
           boot_ungate_clock(k, prep_ok, en_ok)
    \/ \E k \in CPUS : boot_write_sp(k)
    \/ \E k \in CPUS : boot_write_gp(k)
    \/ store_drains
    \/ \E k \in CPUS : boot_wmb(k)
    \/ \E k \in CPUS : boot_deassert_reset(k)
    \/ \E k \in CPUS : boot_set_running(k)
    \/ \E k \in CPUS : boot_unlock(k)
    \/ \E c \in CPUS : entry_load_sp(c)
    \/ \E c \in CPUS : entry_load_gp(c)

NextBoot == BootStep /\ UNCHANGED <<cache_vars, more_vars>>

SpecBoot == InitBoot /\ [][NextBoot]_vars

\* ------------------------------------------------------------------------
\* Specification of the cache-operation dispatcher
\* ------------------------------------------------------------------------

\* Range arguments around the thresholds the range flush compares with.
RangeStarts == {0, 40}
RangeLengths ==
    {0, dcache_size - 1, dcache_size, icache_size - 1, icache_size,
     icache_size + 1, (icache_size + dcache_size) \div 2,
     (icache_size + dcache_size) \div 2 + 1}

\* Address and size arguments of the dma operations, around the thresholds
\* they compare with.
DmaAddrs == {0, 40}
DmaSizes ==
    {s \in {0, 1, 100, dcache_size - 1, dcache_size, scache_size - 1,
            scache_size, scache_size + 1} : s >= 0}

RangeRequests ==
    {Request(name, start, start + len, FALSE, FALSE, FALSE, FALSE) :
        name \in RangeNames \cup LocalRangeNames,
        start \in RangeStarts, len \in RangeLengths}

DmaRequests ==
    {Request(name, addr, size, FALSE, FALSE, FALSE, FALSE) :
        name \in DmaNames, addr \in DmaAddrs, size \in DmaSizes}

PageRequests ==
    {Request("flush_cache_page", PAGE_SIZE + 40, 0, exec, ctx, present, valid) :
        exec \in BOOLEAN, ctx \in BOOLEAN, present \in BOOLEAN,
        valid \in BOOLEAN}

VmaRequests ==
    {Request("flush_cache_range", 0, PAGE_SIZE, exec, ctx, FALSE, FALSE) :
        exec \in BOOLEAN, ctx \in BOOLEAN}

\* __flush_kernel_vmap_range is a real routine in part_001 only.
VmapRequests ==
    IF cache_file = PART_001
    THEN {Request("__flush_kernel_vmap_range", 40, size, FALSE, FALSE, FALSE,
                  FALSE) : size \in {dcache_size - 1, dcache_size}}
    ELSE {}

CacheRequests ==
    {Request("__flush_cache_all", 0, 0, FALSE, FALSE, FALSE, FALSE)}
        \cup RangeRequests \cup DmaRequests \cup PageRequests
        \cup VmaRequests \cup VmapRequests

\* The state of the SMP code the cache specifications keep fixed.
InitSmpQuiet ==
    /\ InitIpi
    /\ smp_file = C_INGENIC_C
    /\ InitBootIdle
    /\ corectrl = {CORECTRL_RPC(c) : c \in CPUS}
    /\ cpu_clock_gates = CPUS
    /\ cpu_running = (CPUS \ {0}) \cup {setup_running_bit(smp_file, NR_CPUS)}
    /\ sec = [c \in CPUS |-> "up"]

InitCache ==
    /\ InitSmpQuiet
    /\ InitCacheConfig
    /\ online \in OnlineSets
    /\ InitCacheRun
    /\ InitLinesClean
    /\ InitMoreIdle

\* The operations keep no state of their own from one call to the next, so
\* a behaviour follows a single request from its call to its return.
CacheStep ==
    \/ \E k \in CPUS, r \in CacheRequests :
           c_op = NoRequest /\ cache_call(k, r)
    \/ \E p \in CPUS : peer_runs(p)
    \/ call_returns
    \/ cache_local
    \/ cache_return

NextCache ==
    CacheStep /\ UNCHANGED <<smp_file, panicked, ipi_vars, boot_vars, more_vars>>

SpecCache == InitCache /\ [][NextCache]_vars

\* ------------------------------------------------------------------------
\* Specification of the dma operations over cache lines and memory
\* ------------------------------------------------------------------------

\* Sets of blocks that start out modified in a cache.
DirtyPatterns ==
    {{}, Tracked, {0, (NearBlocks - 1) * dc_lsize}, {2 * dc_lsize},
     {2 * dcache_size}}

\* The dma operations start from caches that hold modified blocks: one
\* online core owns modified data-cache lines, the secondary cache (when
\* there is one) holds modified lines of its own.
InitDma ==
    /\ InitSmpQuiet
    /\ InitCacheConfig
    /\ online \in {{0}, {0, 1}}
    /\ InitCacheRun
    /\ \E owner \in online, P \in DirtyPatterns :
           l1_dirty = [c \in CPUS |-> IF c = owner THEN P ELSE {}]
    /\ \E P \in (IF scache_size > 0 THEN DirtyPatterns ELSE {{}}) :
           l2_dirty = [b \in Tracked |-> IF b \in P THEN L2DATA ELSE NOT_DIRTY]
    /\ memory = [b \in Tracked |-> DEV]
    /\ mem_entry = [b \in Tracked |-> DEV]
    /\ InitMoreIdle

\* A behaviour issues one dma request from one core, then repeats it.
DmaStep ==
    \/ \E k \in CPUS, r \in DmaRequests :
           /\ c_op = NoRequest \/ (r = c_op /\ k = c_caller)
           /\ cache_call(k, r)
    \/ cache_local
    \/ cache_return

NextDma ==
    DmaStep /\ UNCHANGED <<smp_file, panicked, ipi_vars, boot_vars, more_vars>>

SpecDma == InitDma /\ [][NextDma]_vars

\* ------------------------------------------------------------------------
\* Specification of CPU hotplug
\* ------------------------------------------------------------------------

\* Every core is up, running and online, as after the boot of all
\* secondary cores by c-ingenic.c: the clock gate of each secondary core
\* that has a handle was prepared and enabled once.
\* The cores the external interrupt is routed to before a take-down.
HotRouted == {{0}, {1}, {0, 2}}

\* The same for a take-down of any core.
DisableRouted == {{0}, {1, 3}, {0, 2}}

InitHotplugRouted(routings) ==
    /\ InitIpi
    /\ smp_file = C_INGENIC_C
    /\ InitBootQuiet
    /\ corectrl = {CORECTRL_RPC(c) : c \in CPUS}
    /\ cpu_clock_gates \in {CPUS, {}}
    /\ clk_prepared = [c \in CPUS |->
                          IF c # 0 /\ c \in cpu_clock_gates THEN 1 ELSE 0]
    /\ clk_enabled = clk_prepared
    /\ cpu_running = (CPUS \ {0}) \cup {setup_running_bit(smp_file, NR_CPUS)}
    /\ sec = [c \in CPUS |-> "up"]
    /\ reim_irqm \in {reim_masks(routed) : routed \in routings}
    /\ down = [c \in CPUS |-> "no"]
    /\ d_cpu = [c \in CPUS |-> 0]
    /\ clears = [c \in CPUS |-> 0]
    /\ ndies = [c \in CPUS |-> 0]
    /\ pd_stat = [c \in CPUS |-> {}]
    /\ setup = SetupReturned
    /\ wait_irqoff = NotIdle
    /\ InitCacheQuiet
    /\ InitCacheInitDone

InitHotplug == InitHotplugRouted(HotRouted)

\* A boot of a core that was taken down, started when no other hotplug
\* operation is in progress. The clock steps of these boots succeed.
boot_after_die(k, cpu) ==
    /\ hotplug_idle /\ down[cpu] = "done"
    /\ jz4780_boot_secondary(k, cpu, idle_thread(cpu))

HotBootStep ==
    \/ \E k \in CPUS, cpu \in CPUS \ {0} : boot_after_die(k, cpu)
    \/ \E k \in CPUS : boot_lock(k)
    \/ \E k \in CPUS : boot_assert_reset(k)
    \/ \E k \in CPUS : boot_ungate_clock(k, TRUE, TRUE)
    \/ \E k \in CPUS : boot_write_sp(k)
    \/ \E k \in CPUS : boot_write_gp(k)
    \/ store_drains
    \/ \E k \in CPUS : boot_wmb(k)
    \/ \E k \in CPUS : boot_deassert_reset(k)
    \/ \E k \in CPUS : boot_set_running(k)
    \/ \E k \in CPUS : boot_unlock(k)
    \/ \E c \in CPUS : entry_load_sp(c)
    \/ \E c \in CPUS : entry_load_gp(c)

\* The secondary cores that are taken down and booted again.
HotCores == {1, 2}

HotStepOf(cores) ==
    \/ \E c \in cores : jz4780_cpu_disable(c)
    \/ \E c \in CPUS : disable_lock(c)
    \/ \E c \in CPUS : disable_reroute(c)
    \/ \E c \in CPUS : disable_unlock(c)
    \/ \E c \in CPUS : play_dead(c)
    \/ \E c \in CPUS : play_dead_clr_read(c)
    \/ \E c \in CPUS : play_dead_clr_write(c)
    \/ \E c \in CPUS : play_dead_spin(c)
    \/ \E c \in CPUS : play_dead_wait(c)
    \/ \E k \in CPUS, cpu \in CPUS : jz4780_cpu_die(k, cpu)
    \/ \E k \in CPUS : die_clear_running(k)
    \/ \E k \in CPUS : die_poll(k)
    \/ \E k \in CPUS : die_clk_disable(k)
    \/ \E c \in CPUS : start_secondary(c)

HotStep == HotStepOf(HotCores)

NextHotplug ==
    \/ HotBootStep /\ UNCHANGED <<cache_vars, more_vars>>
    \/ HotStep /\ UNCHANGED <<init_vars, setup, wait_irqoff>>

SpecHotplug == InitHotplug /\ [][NextHotplug]_vars

\* ------------------------------------------------------------------------
\* Specification of CPU hotplug with a caller of jz4780_cpu_die that runs on
\* ------------------------------------------------------------------------

\* jz4780_cpu_die runs with interrupts off on a core that is up, so each of
\* its steps is taken once it can be. Nothing is assumed of the core that
\* is going down: it may never get to its wait instruction.
DieFairness ==
    \A k \in CPUS :
        /\ WF_vars(die_clear_running(k) /\ UNCHANGED <<init_vars, setup, wait_irqoff>>)
        /\ WF_vars(die_poll(k) /\ UNCHANGED <<init_vars, setup, wait_irqoff>>)
        /\ WF_vars(die_clk_disable(k) /\ UNCHANGED <<init_vars, setup, wait_irqoff>>)

\* The polling loop does not depend on the interrupt routing; the clock
\* gates are present, so that the disable at the end of the die shows.
InitHotplugLive ==
    /\ InitHotplug
    /\ reim_irqm = reim_masks({0})
    /\ cpu_clock_gates = CPUS

\* The core that is taken down and booted again here.
LiveCores == {1}

NextHotplugLive ==
    \/ HotBootStep /\ UNCHANGED <<cache_vars, more_vars>>
    \/ HotStepOf(LiveCores) /\ UNCHANGED <<init_vars, setup, wait_irqoff>>

SpecHotplugLive == InitHotplugLive /\ [][NextHotplugLive]_vars /\ DieFairness

\* The core that goes down runs play_dead from its idle loop with
\* interrupts off: each of its steps is taken once it can be.
PlayDeadFairness ==
    \A c \in CPUS :
        /\ WF_vars(play_dead(c) /\ UNCHANGED <<init_vars, setup, wait_irqoff>>)
        /\ WF_vars(play_dead_clr_read(c) /\ UNCHANGED <<init_vars, setup, wait_irqoff>>)
        /\ WF_vars(play_dead_clr_write(c) /\ UNCHANGED <<init_vars, setup, wait_irqoff>>)
        /\ WF_vars(play_dead_spin(c) /\ UNCHANGED <<init_vars, setup, wait_irqoff>>)
        /\ WF_vars(play_dead_wait(c) /\ UNCHANGED <<init_vars, setup, wait_irqoff>>)

\* The same with both sides of the rendezvous running.
SpecRendezvous ==
    InitHotplugLive /\ [][NextHotplugLive]_vars /\ DieFairness /\ PlayDeadFairness

\* ------------------------------------------------------------------------
\* Specification of ingenic_cache_init and the PM notifier
\* ------------------------------------------------------------------------

\* Machine types and CPU types ingenic_cache_init is run on.
InitPlatforms ==
    {<<"MACH_INGENIC_JZ4740", CPU_XBURST>>, <<"MACH_INGENIC_JZ4780", CPU_XBURST>>,
     <<"MACH_INGENIC_X2000", CPU_XBURST2>>, <<"MACH_INGENIC_X2000", CPU_OTHER>>}

\* Values of cca after the command line has been parsed: no cca parameter
\* (-1), a value within 0..7, a value above 7.
CmdlineCca == {-1, 3, 8}

\* Dma requests of non-zero size made after the init.
DmaRequestsAfterInit == {r \in DmaRequests : r.b # 0 /\ r.a = 0}

\* The state on entry to ingenic_cache_init on the boot core: the statics
\* of the cache code are zero, no pointer is bound, the config register
\* holds a reset value.
InitInit ==
    /\ InitSmpQuiet
    /\ InitHotIdle
    /\ cache_file \in CacheFiles
    /\ \E pl \in InitPlatforms : mips_machtype = pl[1] /\ cpu_type = pl[2]
    /\ dcache_size = 0 /\ icache_size = 0 /\ scache_size = 0
    /\ sc_lsize = 0 /\ dc_lsize = 0
    /\ online = {0}
    /\ InitCacheRun
    /\ InitLinesClean
    /\ i_stage = "probe_pcache"
    /\ config1 \in {c \in Config1Values : c.is = 7 /\ c.ds = 0}
    /\ config2 \in IF config1.m THEN Config2Values ELSE {Config2None}
    /\ scache_not_present = FALSE
    /\ blast_scache_fn = "NULL"
    /\ dma_ops = NoDmaOps
    /\ cca \in CmdlineCca
    /\ c0_config_k0 \in ResetCoherency
    /\ page_cachable_default = 0
    /\ cca_cmdline = cca
    /\ cca_at_init = -1
    /\ npm = 0
    /\ last_pm = "none"

InitStep ==
    \/ probe_pcache
    \/ probe_scache
    \/ blast_setup
    \/ install_ops
    \/ init_flush
    \/ init_coherency
    \/ \E cmd \in PmEvents : ingenic_cache_pm_notifier(cmd)
    \/ \E k0 \in ResetCoherency : config_lost(k0)

NextInit ==
    \/ InitStep /\ UNCHANGED <<smp_file, ipi_vars, boot_vars, hot_vars, setup, wait_irqoff,
                               cache_file, mips_machtype, cpu_type, online,
                               c_stage, c_caller, c_op, queued, ran,
                               scfm_calls, preempt_count, cache_lines>>
    \/ (\E r \in DmaRequestsAfterInit : dma_after_init(r))
           /\ UNCHANGED <<smp_file, ipi_vars, boot_vars, hot_vars, setup, wait_irqoff>>

SpecInit == InitInit /\ [][NextInit]_vars

\* ------------------------------------------------------------------------
\* Specification of the mailbox handler under deliveries with no action bit
\* ------------------------------------------------------------------------

\* The mailbox interrupt of core c is raised while its mailbox holds
\* neither action bit.
spurious_delivery(c) ==
    /\ ~panicked
    /\ c \notin mirqp
    /\ mailbox[c] \cap ActionBits = {}
    /\ mirqp' = mirqp \cup {c}
    /\ UNCHANGED <<smp_file, panicked, smp_lock, mailbox, pc, opk, todo, cur,
                   act, mbox, hpc, h_action, h_status, sched_ipi, call_ipi,
                   h_log, owed, trip, nops>>

\* The core that takes such deliveries.
SpuriousCores == {1}

\* Deliveries with no action bit, among sends to the same core from core 0
\* and the handler runs they cause.
SpuriousStep ==
    \/ \E c \in SpuriousCores : spurious_delivery(c)
    \/ \E cpu \in SpuriousCores, action \in SendActions :
           jz4780_send_ipi_single(0, cpu, action)
    \/ \E c \in CPUS : send_lock(c)
    \/ \E c \in CPUS : send_locked_read(c)
    \/ \E c \in CPUS : send_locked_write(c)
    \/ \E c \in CPUS : send_unlock(c)
    \/ \E c \in CPUS : mbox_irq(c)
    \/ \E c \in CPUS : handler_lock(c)
    \/ \E c \in CPUS : handler_read(c)
    \/ \E c \in CPUS : handler_clear(c)
    \/ \E c \in CPUS : handler_status_read(c)
    \/ \E c \in CPUS : handler_status_write(c)
    \/ \E c \in CPUS : handler_unlock(c)
    \/ \E c \in CPUS : handler_dispatch(c)

NextSpurious == SpuriousStep /\ UNCHANGED <<boot_vars, cache_vars, more_vars>>

SpecSpurious == Init /\ [][NextSpurious]_vars

\* ------------------------------------------------------------------------
\* jz4780_smp_setup and jz4780_smp_prepare_cpus on the primary core
\* ------------------------------------------------------------------------

\* What the steps of the two functions leave alone besides the registers
\* they write.
setup_rest == <<smp_file, panicked, smp_lock, pc, ipi_quiet, clk_enabled,
                jz4780_cpu_entry_sp, jz4780_cpu_entry_gp, wbuf, b_cpu, b_idle,
                b_res, b_ctrl, expect, overtaken, nboots, cache_vars,
                hot_vars, init_vars, wait_irqoff>>

\* jz4780_smp_setup() is called: reim = read_c0_reim(); the loop marks the
\* possible CPUs (NR_CPUS of them in smp.c, one per CPU node in c-ingenic.c)
\* and leaves the local cpu at the value it ends with.
jz4780_smp_setup ==
    /\ setup.stage = "start"
    /\ setup' = [setup EXCEPT
                   !.stage = "mask",
                   !.reim = [mboxirq0m |-> setup.mboxirq0m,
                             entry |-> setup.entry],
                   !.possible = IF smp_file = SMP_C THEN CPUS
                                ELSE 0 .. (setup.nodes - 1),
                   !.cpu = setup_running_bit(smp_file, setup.nodes)]
    /\ UNCHANGED <<setup_rest, mailbox, mirqp, corectrl, cpu_clock_gates,
                   clk_prepared, cpu_running, sec, s_sp, s_gp>>

\* reim &= ~REIM_MBOXIRQ0M; write_c0_reim(reim).
setup_mask_irq ==
    /\ setup.stage = "mask"
    /\ setup' = [setup EXCEPT
                   !.stage = "clear",
                   !.reim = [@ EXCEPT !.mboxirq0m = FALSE],
                   !.mboxirq0m = FALSE,
                   !.entry = setup.reim.entry,
                   !.todo = setup_mailboxes(smp_file)]
    /\ UNCHANGED <<setup_rest, mailbox, mirqp, corectrl, cpu_clock_gates,
                   clk_prepared, cpu_running, sec, s_sp, s_gp>>

\* write_c0_mailboxN(0), one register after the other.
setup_clear_mailbox ==
    /\ setup.stage = "clear"
    /\ write_c0_mailbox(Min(setup.todo), {})
    /\ setup' = [setup EXCEPT
                   !.todo = @ \ {Min(setup.todo)},
                   !.stage = IF setup.todo = {Min(setup.todo)}
                             THEN "status" ELSE "clear"]
    /\ UNCHANGED <<setup_rest, corectrl, cpu_clock_gates, clk_prepared,
                   cpu_running, sec, s_sp, s_gp>>

\* write_c0_corestatus(0).
setup_clear_status ==
    /\ setup.stage = "status"
    /\ mirqp' = {}
    /\ setup' = [setup EXCEPT !.stage = "unmask"]
    /\ UNCHANGED <<setup_rest, mailbox, corectrl, cpu_clock_gates,
                   clk_prepared, cpu_running, sec, s_sp, s_gp>>

\* reim &= ~REIM_ENTRY; reim |= addr & REIM_ENTRY; reim |= REIM_MBOXIRQ0M;
\* write_c0_reim(reim); set_c0_status(STATUSF_IP3).
setup_unmask_irq ==
    /\ setup.stage = "unmask"
    /\ setup' = [setup EXCEPT
                   !.stage = "running",
                   !.reim = [mboxirq0m |-> TRUE, entry |-> SECONDARY_ENTRY],
                   !.mboxirq0m = TRUE,
                   !.entry = SECONDARY_ENTRY]
    /\ UNCHANGED <<setup_rest, mailbox, mirqp, corectrl, cpu_clock_gates,
                   clk_prepared, cpu_running, sec, s_sp, s_gp>>

\* cpumask_set_cpu(cpu, &cpu_running); jz4780_smp_setup returns.
setup_set_running ==
    /\ setup.stage = "running"
    /\ cpu_running' = cpu_running \cup {setup.cpu}
    /\ setup' = [setup EXCEPT !.stage = "prepare"]
    /\ UNCHANGED <<setup_rest, mailbox, mirqp, corectrl, cpu_clock_gates,
                   clk_prepared, sec, s_sp, s_gp>>

\* A prepare that gives up when request_irq fails.
prepare_cpus_abort(irq_ok) ==
    /\ setup.stage = "prepare"
    /\ setup' = [setup EXCEPT
                   !.stage = IF irq_ok THEN "node" ELSE "done",
                   !.irq = <<irq_ok>>,
                   !.ctrl = corectrl,
                   !.todo = 0 .. (setup.nodes - 1)]
    /\ UNCHANGED <<setup_rest, mailbox, mirqp, corectrl, cpu_clock_gates,
                   clk_prepared, cpu_running, sec, s_sp, s_gp>>

\* jz4780_smp_prepare_cpus() is called: request_irq succeeds or fails (the
\* failure is reported with pr_err and nothing else);
\* ctrl = read_c0_corectrl(); the loop starts at the first CPU node.
jz4780_smp_prepare_cpus(irq_ok) ==
    /\ setup.stage = "prepare"
    /\ setup' = [setup EXCEPT
                   !.stage = "node",
                   !.irq = <<irq_ok>>,
                   !.ctrl = corectrl,
                   !.todo = 0 .. (setup.nodes - 1)]
    /\ UNCHANGED <<setup_rest, mailbox, mirqp, corectrl, cpu_clock_gates,
                   clk_prepared, cpu_running, sec, s_sp, s_gp>>

\* The clk_prepare count of the node's gate after the loop body: smp.c
\* calls clk_prepare on a handle it found, c-ingenic.c does not.
prepared_after_node(file, count, lookup_ok, prep_ok) ==
    IF file = SMP_C /\ lookup_ok /\ prep_ok THEN count + 1 ELSE count

\* One pass of the loop for the node of core cpu:
\* ctrl |= CORECTRL_RPC0 << cpu; cpu_clock_gates[cpu] = of_clk_get(...), or
\* NULL when the lookup fails; in smp.c clk_prepare on the handle.
prepare_node(lookup_ok, prep_ok) ==
    /\ setup.stage = "node"
    /\ LET cpu == Min(setup.todo) IN
        /\ setup' = [setup EXCEPT
                       !.ctrl = @ \cup {CORECTRL_RPC(cpu)},
                       !.todo = @ \ {cpu},
                       !.stage = IF setup.todo = {cpu} THEN "write" ELSE "node"]
        /\ cpu_clock_gates' = IF lookup_ok THEN cpu_clock_gates \cup {cpu}
                              ELSE cpu_clock_gates \ {cpu}
        /\ clk_prepared' = [clk_prepared EXCEPT ![cpu] =
               prepared_after_node(smp_file, @, lookup_ok, prep_ok)]
    /\ UNCHANGED <<setup_rest, mailbox, mirqp, corectrl, cpu_running, sec,
                   s_sp, s_gp>>

\* write_c0_corectrl(ctrl); jz4780_smp_prepare_cpus returns.
prepare_write_ctrl ==
    /\ setup.stage = "write"
    /\ write_c0_corectrl(setup.ctrl)
    /\ setup' = [setup EXCEPT !.stage = "done"]
    /\ UNCHANGED <<setup_rest, mailbox, mirqp, cpu_clock_gates, clk_prepared,
                   cpu_running>>

\* ------------------------------------------------------------------------
\* Specification of the SMP bring-up on the primary core
\* ------------------------------------------------------------------------

\* What the boot loader may have left in a mailbox register.
BootMailboxWords == {{}, {SMP_CALL_FUNCTION}}

\* The core-control register at entry: the secondary cores held in reset,
\* with or without the sleep mask bit of core 0.
BootCoreCtrls ==
    {{CORECTRL_SWRST(c) : c \in CPUS \ {0}},
     {CORECTRL_SWRST(c) : c \in CPUS \ {0}} \cup {CORECTRL_SLEEPM(0)}}

\* The primary core enters jz4780_smp_setup: cpu_running is all zero, no
\* clock handle is held, and the device tree has 1 to NR_CPUS CPU nodes.
InitSetup ==
    /\ smp_file \in SmpFiles
    /\ panicked = FALSE
    /\ smp_lock = {}
    /\ mailbox \in [CPUS -> BootMailboxWords]
    /\ mirqp = {c \in CPUS : mailbox[c] # {}}
    /\ pc = [c \in CPUS |-> "idle"]
    /\ opk = [c \in CPUS |-> "none"]
    /\ todo = [c \in CPUS |-> {}]
    /\ cur = [c \in CPUS |-> 0]
    /\ act = [c \in CPUS |-> {}]
    /\ mbox = [c \in CPUS |-> {}]
    /\ hpc = [c \in CPUS |-> "none"]
    /\ h_action = [c \in CPUS |-> {}]
    /\ h_status = [c \in CPUS |-> {}]
    /\ sched_ipi = [c \in CPUS |-> 0]
    /\ call_ipi = [c \in CPUS |-> 0]
    /\ h_log = [c \in CPUS |-> <<>>]
    /\ owed = [c \in CPUS |-> {}]
    /\ trip = [c \in CPUS |-> NoTrip]
    /\ nops = 0
    /\ InitBootIdle
    /\ corectrl \in BootCoreCtrls
    /\ cpu_clock_gates = {}
    /\ cpu_running = {}
    /\ sec = [c \in CPUS |-> IF c = 0 THEN "up" ELSE "reset"]
    /\ InitCacheQuiet
    /\ reim_irqm = reim_masks({0})
    /\ down = [c \in CPUS |-> "no"]
    /\ d_cpu = [c \in CPUS |-> 0]
    /\ clears = [c \in CPUS |-> 0]
    /\ ndies = [c \in CPUS |-> 0]
    /\ pd_stat = [c \in CPUS |-> {}]
    /\ InitCacheInitDone
    /\ wait_irqoff = NotIdle
    /\ \E n \in 1 .. NR_CPUS, m \in BOOLEAN :
           setup = [stage |-> "start", nodes |-> n, cpu |-> 0,
                    possible |-> {}, mboxirq0m |-> m, entry |-> "boot",
                    reim |-> [mboxirq0m |-> FALSE, entry |-> "boot"],
                    todo |-> {}, irq |-> <<>>, ctrl |-> {}]

NextSetup ==
    \/ jz4780_smp_setup
    \/ setup_mask_irq
    \/ setup_clear_mailbox
    \/ setup_clear_status
    \/ setup_unmask_irq
    \/ setup_set_running
    \/ \E irq_ok \in BOOLEAN : jz4780_smp_prepare_cpus(irq_ok)
    \/ \E lookup_ok \in BOOLEAN, prep_ok \in BOOLEAN :
           prepare_node(lookup_ok, prep_ok)
    \/ prepare_write_ctrl

SpecSetup == InitSetup /\ [][NextSetup]_vars

\* ------------------------------------------------------------------------
\* jz4780_smp_wait_irqoff on one core
\* ------------------------------------------------------------------------

\* Offsets from INDEX_BASE of the lines of the data cache.
idle_lines == {l * wait_irqoff.linesz : l \in 0 .. (wait_irqoff.ways * (wait_irqoff.waysize \div wait_irqoff.linesz) - 1)}

\* Interrupt lines of the cause register (IP bits) and of the status
\* register (IM bits) the idle loop is run with.
IpLines == {2, 3}

\* A pending test that looks at the latched lines alone.
irq_pending_unmasked(cause, status) == cause # {}

\* read_c0_cause() & read_c0_status() & CAUSEF_IP is non-zero: a line is
\* latched in cause and enabled in status.
irq_pending(cause, status) == cause \cap status # {}

\* jz4780_smp_wait_irqoff() is called with interrupts off:
\* pending = read_c0_cause() & read_c0_status() & CAUSEF_IP; the pass and
\* the wait are skipped when need_resched() or an interrupt is pending.
\* wback_dcache starts with ws = 0 and addr = start.
jz4780_smp_wait_irqoff(resched, cause, status) ==
    /\ wait_irqoff.stage = "call"
    /\ wait_irqoff' = [wait_irqoff EXCEPT
                  !.stage = IF ~resched /\ ~irq_pending(cause, status)
                            THEN "pass" ELSE "irq_enable",
                  !.resched = resched, !.cause = cause, !.status = status,
                  !.ws = 0, !.addr = 0]
    /\ UNCHANGED <<smp_file, panicked, ipi_vars, boot_vars, cache_vars,
                   hot_vars, init_vars, setup>>

\* One pass of the inner loop of wback_dcache on the line at addr | ws:
\* cache Index_Load_Tag_D; mfc0 TagLo; the dirty test; cache
\* Index_Writeback_Inv_D when a dirty bit is set; then addr and ws advance.
wback_dcache_line ==
    /\ wait_irqoff.stage = "pass"
    /\ LET line == BitOr(wait_irqoff.addr, wait_irqoff.ws)
           dirty == tag_dirty(wait_irqoff.tags[line])
           next_addr == wait_irqoff.addr + wait_irqoff.linesz
           wrap == next_addr >= wait_irqoff.waysize
           next_ws == IF wrap THEN wait_irqoff.ws + 2 ^ wait_irqoff.waybit ELSE wait_irqoff.ws
       IN  wait_irqoff' = [wait_irqoff EXCEPT
                      !.visits = [@ EXCEPT ![line] = @ + 1],
                      !.wbinv = IF dirty THEN Append(@, line) ELSE @,
                      !.tags = IF dirty THEN [@ EXCEPT ![line] = 0] ELSE @,
                      !.addr = IF wrap THEN 0 ELSE next_addr,
                      !.ws = next_ws,
                      !.stage = IF next_ws >= wait_irqoff.ways * 2 ^ wait_irqoff.waybit
                                THEN "sync" ELSE "pass"]
    /\ UNCHANGED <<smp_file, panicked, ipi_vars, boot_vars, cache_vars,
                   hot_vars, init_vars, setup>>

\* sync.
wait_sync ==
    /\ wait_irqoff.stage = "sync"
    /\ wait_irqoff' = [wait_irqoff EXCEPT !.stage = "wait", !.after = Append(@, "sync")]
    /\ UNCHANGED <<smp_file, panicked, ipi_vars, boot_vars, cache_vars,
                   hot_vars, init_vars, setup>>

\* wait: the clock of the core and of its cache is gated until an interrupt.
wait_wait ==
    /\ wait_irqoff.stage = "wait"
    /\ wait_irqoff' = [wait_irqoff EXCEPT !.stage = "irq_enable", !.after = Append(@, "wait")]
    /\ UNCHANGED <<smp_file, panicked, ipi_vars, boot_vars, cache_vars,
                   hot_vars, init_vars, setup>>

\* local_irq_enable(); the function returns.
wait_irq_enable ==
    /\ wait_irqoff.stage = "irq_enable"
    /\ wait_irqoff' = [wait_irqoff EXCEPT !.stage = "done", !.irqs = "on"]
    /\ UNCHANGED <<smp_file, panicked, ipi_vars, boot_vars, cache_vars,
                   hot_vars, init_vars, setup>>

\* Geometries of the data cache: ways and sets; lines of 32 bytes.
IdleWays == {1, 2, 3, 4}
IdleSets == {2, 4}

\* TagLo words: of a clean line, and of a line with one or both dirty bits.
CleanTags == {0, 19}
DirtyTags == {4, 8, 12, 23}

\* The idle loop calls jz4780_smp_wait_irqoff with the data cache in any of
\* a few patterns of clean and dirty lines; waysize and waybit are those of
\* probe_pcache.
InitIdle ==
    /\ InitIpi
    /\ smp_file = C_INGENIC_C
    /\ InitBootIdle
    /\ corectrl = {CORECTRL_RPC(c) : c \in CPUS}
    /\ cpu_clock_gates = CPUS
    /\ cpu_running = (CPUS \ {0}) \cup {setup_running_bit(smp_file, NR_CPUS)}
    /\ sec = [c \in CPUS |-> "up"]
    /\ InitCacheQuiet
    /\ reim_irqm = reim_masks({0})
    /\ down = [c \in CPUS |-> "no"]
    /\ d_cpu = [c \in CPUS |-> 0]
    /\ clears = [c \in CPUS |-> 0]
    /\ ndies = [c \in CPUS |-> 0]
    /\ pd_stat = [c \in CPUS |-> {}]
    /\ setup = SetupReturned
    /\ InitCacheInitDone
    /\ \E w \in IdleWays, s \in IdleSets, ct \in CleanTags, dt \in DirtyTags :
         LET lines == {l * 32 : l \in 0 .. (w * s - 1)} IN
         \E D \in {{}, lines, {0}, {(w * s - 1) * 32}, {32, (w * s - 1) * 32}} :
           wait_irqoff = [stage |-> "call", ways |-> w, waysize |-> s * 32,
                   waybit |-> ffs(s * 32), linesz |-> 32, ws |-> 0, addr |-> 0,
                   tags |-> [l \in lines |-> IF l \in D THEN dt ELSE ct],
                   entry_tags |-> [l \in lines |-> IF l \in D THEN dt ELSE ct],
                   visits |-> [l \in lines |-> 0],
                   wbinv |-> <<>>, after |-> <<>>,
                   resched |-> FALSE, cause |-> {}, status |-> {},
                   irqs |-> "off"]

NextIdle ==
    \/ \E resched \in BOOLEAN, cause \in SUBSET IpLines,
          status \in SUBSET IpLines :
           jz4780_smp_wait_irqoff(resched, cause, status)
    \/ wback_dcache_line
    \/ wait_sync
    \/ wait_wait
    \/ wait_irq_enable

SpecIdle == InitIdle /\ [][NextIdle]_vars

\* ------------------------------------------------------------------------
\* The pending bits while a core is taken down
\* ------------------------------------------------------------------------

\* The cores that are taken down, and the core that is sent actions
\* meanwhile.
PendingDown == {1, 2}
PendingTarget == {2}

\* The take-down of one core among sends from core 0 to another core and the
\* handler runs they cause.
PendingStep ==
    \/ \E cpu \in PendingTarget, action \in SendActions :
           jz4780_send_ipi_single(0, cpu, action)
    \/ \E c \in CPUS : send_lock(c)
    \/ \E c \in CPUS : send_locked_read(c)
    \/ \E c \in CPUS : send_locked_write(c)
    \/ \E c \in CPUS : send_unlock(c)
    \/ \E c \in CPUS : mbox_irq(c)
    \/ \E c \in CPUS : handler_lock(c)
    \/ \E c \in CPUS : handler_read(c)
    \/ \E c \in CPUS : handler_clear(c)
    \/ \E c \in CPUS : handler_status_read(c)
    \/ \E c \in CPUS : handler_status_write(c)
    \/ \E c \in CPUS : handler_unlock(c)
    \/ \E c \in CPUS : handler_dispatch(c)

NextPending ==
    \/ PendingStep /\ UNCHANGED <<boot_vars, cache_vars, more_vars>>
    \/ HotStepOf(PendingDown) /\ UNCHANGED <<init_vars, setup, wait_irqoff>>

SpecPending == InitHotplugLive /\ [][NextPending]_vars

\* ------------------------------------------------------------------------
\* Claims about the pending bits of the core-status register
\* ------------------------------------------------------------------------

\* Core k writes the core-status register with one of its pending bits
\* removed: the write of mbox_handler, or the write of smp_clr_pending.
HandlerClears(k) == hpc[k] = "status_write" /\ hpc'[k] = "unlock"
PlayDeadClears(k) == sec[k] = "pd_clr_write" /\ sec'[k] = "pd_spin"

\* The write is made with smp_lock held by the writer and changes the
\* writer's own bit only.
ClearsOwnBitUnderLock(k) ==
    /\ smp_lock = {k}
    /\ mirqp' = mirqp \ {k}

\* C24: every read-modify-write of the core-status register that clears a
\* pending-mailbox bit, in mbox_handler and in play_dead, is made while
\* holding smp_lock, so that no such write restores a bit another core
\* cleared and each clear changes only the clearing core's own bit.
C24_ClearsUnderLock ==
    [][\A k \in CPUS :
           HandlerClears(k) \/ PlayDeadClears(k) => ClearsOwnBitUnderLock(k)]_vars

\* What holds: the write of mbox_handler is made under smp_lock, and where
\* no core runs play_dead it changes the handling core's own bit only.
C24_HandlerClearsUnderLock ==
    [][\A k \in CPUS : HandlerClears(k) => ClearsOwnBitUnderLock(k)]_vars

\* The write of smp_clr_pending puts back a bit that the handler of another
\* core cleared after smp_clr_pending read the register.
C24_PlayDeadRestoresBit ==
    [][\A k \in CPUS : PlayDeadClears(k) => mirqp' \subseteq mirqp]_vars

\* ------------------------------------------------------------------------
\* Claims about the mailbox IPI transport
\* ------------------------------------------------------------------------

\* The dispatches a finished round trip of `bit` on core c must show: the
\* matching handler once, the other one not, and the mailbox reading zero.
RoundTripResult(c) ==
    /\ sched_ipi[c] = (IF trip[c].bit = {SMP_RESCHEDULE_YOURSELF} THEN 1 ELSE 0)
    /\ call_ipi[c] = (IF trip[c].bit = {SMP_CALL_FUNCTION} THEN 1 ELSE 0)
    /\ mailbox[c] = {}

\* C1: for every core index c in 0..3, jz4780_send_ipi_single(c, bit) posts
\* the bit without halting the kernel, and after the following run of
\* mbox_handler on core c the handler matching the bit has been dispatched
\* exactly once, the other handler not at all, and mailbox c reads zero.
C1_MailboxRoundTrip ==
    /\ \A s \in CPUS :
           (opk[s] = "single" /\ pc[s] = "read" /\ cur[s] \in 0 .. 3)
               => ~panicked
    /\ \A c \in CPUS : trip[c].stage = "done" => RoundTripResult(c)

\* The round trip of C1 on the cores whose send does not halt.
C1_RoundTripWhereSendReturns ==
    \A c \in CPUS : trip[c].stage = "done" => RoundTripResult(c)

\* A round trip has finished on core 3.
C1_RoundTripDone == trip[3].stage = "done"

\* The step in which core c executes the write of
\* jz4780_send_ipi_single_locked.
SendWrites(c) == pc[c] = "write" /\ pc'[c] # "write"

\* C3: jz4780_send_ipi_single(c, action) for a valid core c sets mailbox c
\* to (previous value OR action) while holding smp_lock, leaves every other
\* mailbox unchanged, releases the lock and returns; no step of it after
\* taking the lock waits for anything, the target's handler included.
C3_SendMergesUnderLock ==
    /\ [](\A c \in CPUS :
             (opk[c] = "single" /\ ~panicked) =>
                 /\ pc[c] = "read" => ENABLED send_locked_read(c)
                 /\ pc[c] = "write" => ENABLED send_locked_write(c)
                 /\ pc[c] = "unlock" => ENABLED send_unlock(c))
    /\ [][\A c \in CPUS :
             /\ (opk[c] = "single" /\ SendWrites(c)) =>
                    /\ c \in smp_lock
                    /\ mailbox' = [mailbox EXCEPT
                                      ![cur[c]] = mailbox[cur[c]] \cup act[c]]
             /\ (opk[c] = "single" /\ pc[c] = "unlock" /\ pc'[c] = "idle") =>
                    smp_lock' = {}]_vars

\* A send has returned, the lock is free and no handler has run, while the
\* target's mailbox holds the bit posted now besides the one pending before.
C3_PostedOverPending ==
    /\ \A c \in CPUS : pc[c] = "idle" /\ hpc[c] = "none"
    /\ smp_lock = {}
    /\ mailbox[2] = ActionBits
    /\ h_action = [c \in CPUS |-> {}]

\* C4: no action bit is lost: every bit a sender has posted to mailbox c
\* and that no handler run on c has read yet is still set in mailbox c, and
\* every bit a finished handler run has read was dispatched by that run.
C4_NoBitLost ==
    \A c \in CPUS :
        /\ owed[c] \subseteq mailbox[c]
        /\ hpc[c] = "none" =>
               /\ SMP_RESCHEDULE_YOURSELF \in h_action[c] => sched_ipi[c] = 1
               /\ SMP_CALL_FUNCTION \in h_action[c] => call_ipi[c] = 1

\* A sender has posted a new bit to core 1 after the handler on core 1 read
\* and cleared the mailbox and before that handler returned.
C4_PostedDuringHandler ==
    /\ hpc[1] = "dispatch"
    /\ h_action[1] = {SMP_CALL_FUNCTION}
    /\ owed[1] = {SMP_RESCHEDULE_YOURSELF}

\* ------------------------------------------------------------------------
\* Claims about the boot sequencer
\* ------------------------------------------------------------------------

\* Core c has entered the kernel with the pair written by the
\* jz4780_boot_secondary call that deasserted its reset.
ReadOwnPair(c) == <<s_sp[c], s_gp[c]>> = expect[c]

\* C2: under every interleaving of jz4780_boot_secondary calls, calls for
\* two different cores issued back to back included, with the loads of a
\* released core, each secondary core reads exactly the sp/gp pair written
\* by the call that deasserted its reset.
C2_ReadsOwnPairAlways ==
    \A c \in CPUS \ {0} : sec[c] = "up" => ReadOwnPair(c)

\* C2, amended: a secondary core reads exactly the pair written by the call
\* that deasserted its reset whenever no other jz4780_boot_secondary call
\* has stored to the pair between that deassert and the core's loads.
C2_ReadsOwnPairWhenAlone ==
    \A c \in CPUS \ {0} : (sec[c] = "up" /\ ~overtaken[c]) => ReadOwnPair(c)

\* Two cores have been booted one after the other and both have entered the
\* kernel, each on the pair of its own boot request.
C2_TwoCoresUp ==
    /\ sec[1] = "up" /\ sec[2] = "up"
    /\ ~overtaken[1] /\ ~overtaken[2]
    /\ expect[1] # expect[2]
    /\ ReadOwnPair(1) /\ ReadOwnPair(2)

\* ------------------------------------------------------------------------
\* Claims about the cache-operation dispatcher
\* ------------------------------------------------------------------------

DcacheRangeOps == {"blast_dcache_range", "protected_blast_dcache_range"}
IcacheRangeOps == {"blast_icache_range", "protected_blast_icache_range"}

\* The local range flush has run on the calling core.
LocalRangeFlushDone ==
    /\ c_stage = "ret"
    /\ c_op.name \in LocalRangeNames
    /\ Len(clog[c_caller]) = 2

\* C5: __local_ingenic_flush_icache_range called with end - start ==
\* S - 1 uses the line-iteration primitive and with end - start == S the
\* whole-cache blast, in the data-cache stage with S = dcache_size and in
\* the instruction-cache stage with S = icache_size.
C5_CrossoverAtCacheSize ==
    LocalRangeFlushDone =>
        LET len == c_op.b - c_op.a
            log == clog[c_caller]
        IN  /\ len = dcache_size - 1 => log[1].p \in DcacheRangeOps
            /\ len = dcache_size => log[1].p = "ingenic_blast_dcache"
            /\ len = icache_size - 1 => log[2].p \in IcacheRangeOps
            /\ len = icache_size => log[2].p = "ingenic_blast_icache"

\* The data-cache half of C5 taken alone.
C5_DcacheCrossoverAtCacheSize ==
    LocalRangeFlushDone =>
        LET len == c_op.b - c_op.a
            log == clog[c_caller]
        IN  /\ len = dcache_size - 1 => log[1].p \in DcacheRangeOps
            /\ len = dcache_size => log[1].p = "ingenic_blast_dcache"

\* The operations C6 lists.
ListedOperations == {"__flush_cache_all"} \cup RangeNames \cup DmaNames

ListedOperationReturns ==
    /\ c_stage = "ret"
    /\ Cardinality(online) >= 2
    /\ c_op.name \in ListedOperations

PeersOf(k) == online \ {k}

\* C6 as stated: with two or more cores online every listed operation
\* dispatches exactly once to each peer core per call.
C6_EveryOperationDispatchesToEachPeer ==
    ListedOperationReturns => \A p \in PeersOf(c_caller) : ran[p] = 1

\* The range flush takes its local branch: peers online, 2 * (end - start)
\* <= icache_size + dcache_size, and in c-ingenic.c a CPU_XBURST2 core.
SmallRangeFlush ==
    /\ c_op.name \in RangeNames
    /\ 2 * (c_op.b - c_op.a) <= icache_size + dcache_size
    /\ cache_file = PART_001 \/ cpu_type = CPU_XBURST2

\* C6: with two or more cores online, the flush-all and the range flush
\* outside its local branch dispatch exactly once to each peer core per
\* call; the range flush on its local branch and the dma operations
\* dispatch to no core.
C6_DispatchOncePerPeerOnBroadcastPath ==
    ListedOperationReturns =>
        IF c_op.name = "__flush_cache_all"
              \/ (c_op.name \in RangeNames /\ ~SmallRangeFlush)
        THEN /\ scfm_calls = 1
             /\ \A p \in PeersOf(c_caller) : ran[p] = 1
             /\ \A p \in CPUS \ PeersOf(c_caller) : ran[p] = 0
        ELSE /\ scfm_calls = 0
             /\ \A p \in CPUS : ran[p] = 0

C6_FlushAllReachedEveryPeer ==
    /\ ListedOperationReturns
    /\ c_op.name = "__flush_cache_all"
    /\ c_caller = 2
    /\ Cardinality(PeersOf(c_caller)) = 3
    /\ \A p \in PeersOf(c_caller) : ran[p] = 1

\* C7: with one core online and every foreign map empty,
\* ingenic_op_needs_ipi() is false, no operation calls
\* smp_call_function_many and only the calling core runs anything.
C7_LoneCoreNeverDispatches ==
    (Cardinality(online) = 1 /\ \A c \in CPUS : cpu_foreign_map(c) = {}) =>
        /\ ~ingenic_op_needs_ipi
        /\ scfm_calls = 0
        /\ queued = {}
        /\ \A p \in CPUS \ {c_caller} : ran[p] = 0 /\ clog[p] = <<>>

C7_LoneCoreFlushedAll ==
    /\ Cardinality(online) = 1
    /\ \A c \in CPUS : cpu_foreign_map(c) = {}
    /\ c_stage = "ret"
    /\ c_op.name = "__flush_cache_all"
    /\ clog[0] = local_ingenic_flush_cache_all

\* A broadcast operation is past its local part.
BroadcastOperationReturns ==
    /\ c_stage \in {"ret", "idle"}
    /\ c_op.name \in {"__flush_cache_all"} \cup RangeNames
    /\ broadcast_func(c_op) # "none"
    /\ ingenic_op_needs_ipi

\* C8: a broadcast operation returns only after every peer core of the
\* caller's foreign map has completed it and the caller has completed it
\* locally.
C8_ReturnsAfterEveryPeer ==
    BroadcastOperationReturns =>
        /\ \A p \in cpu_foreign_map(c_caller) :
               /\ ran[p] >= 1
               /\ clog[p] = func_log(broadcast_func(c_op), c_op)
        /\ clog[c_caller] = func_log(broadcast_func(c_op), c_op)

C8_RangeBroadcastReturned ==
    /\ BroadcastOperationReturns
    /\ c_stage = "idle"
    /\ c_op.name \in RangeNames
    /\ Cardinality(cpu_foreign_map(c_caller)) = 3
    /\ \A p \in cpu_foreign_map(c_caller) : ran[p] = 1

\* Generation-2 invalidate of a non-empty range with both ends off the
\* secondary-cache line boundaries has run.
UnalignedInvalidateDone ==
    /\ c_stage = "ret"
    /\ c_op.name = "_dma_cache_inv"
    /\ cpu_type = CPU_XBURST2
    /\ c_op.b > 0
    /\ sc_lsize > 0
    /\ c_op.a % sc_lsize # 0
    /\ (c_op.a + c_op.b) % sc_lsize # 0

IsBoundaryOp(e) == e.p = "cache_op(Hit_Writeback_Inv_SD)"

IsScacheWriteBack(e) ==
    e.p \in {"cache_op(Hit_Writeback_Inv_SD)", "ingenic_blast_scache",
             "blast_scache_range", "ingenic_blast_scache_range"}

\* Exactly two write-back-invalidates reach the secondary cache, at the
\* lines of addr and addr + len - 1, both before the interior invalidate.
TwoBoundaryOpsThenInterior ==
    LET log == clog[c_caller]
        addr == c_op.a
        last == c_op.a + c_op.b - 1
        wb == SelectSeq(log, IsScacheWriteBack)
    IN  /\ Len(wb) = 2
        /\ wb[1] = Prim("cache_op(Hit_Writeback_Inv_SD)",
                        addr - (addr % sc_lsize), 0)
        /\ wb[2] = Prim("cache_op(Hit_Writeback_Inv_SD)",
                        last - (last % sc_lsize), 0)
        /\ \E m \in DOMAIN log :
               /\ log[m] = Prim("blast_inv_scache_range", addr, addr + c_op.b)
               /\ \A i \in DOMAIN log : IsBoundaryOp(log[i]) => i < m

\* C9 as stated: for every non-empty range with unaligned ends.
C9_BoundaryOpsForEveryRange ==
    UnalignedInvalidateDone => TwoBoundaryOpsThenInterior

\* C9: for every non-empty range with unaligned ends that is smaller than
\* the secondary cache, xburst2_dma_cache_inv issues exactly two boundary
\* write-back-invalidates, at addr & ~align_mask and (addr + len - 1) &
\* ~align_mask, before the interior invalidate.
C9_BoundaryOpsBelowScacheSize ==
    (UnalignedInvalidateDone /\ c_op.b < scache_size) =>
        TwoBoundaryOpsThenInterior

C9_TwoDistinctBoundaryLines ==
    /\ UnalignedInvalidateDone
    /\ c_op.b < scache_size
    /\ \E i, j \in DOMAIN clog[c_caller] :
           /\ IsBoundaryOp(clog[c_caller][i])
           /\ IsBoundaryOp(clog[c_caller][j])
           /\ clog[c_caller][i].a < clog[c_caller][j].a

\* The generation-2 invalidate has run a second time with the arguments of
\* the call before it.
SecondInvalidateDone ==
    /\ c_stage = "ret"
    /\ c_op.name = "_dma_cache_inv"
    /\ cpu_type = CPU_XBURST2
    /\ repeat

\* C10: a second xburst2_dma_cache_inv(addr, len) right after a first one
\* with the same arguments leaves memory as the first call left it.
C10_SecondInvalidateKeepsMemory == SecondInvalidateDone => memory = mem_entry

C10_RepeatedAfterWriteBack ==
    /\ SecondInvalidateDone
    /\ c_op.b > 0
    /\ \E b \in Tracked : memory[b] = L2DATA
    /\ \E b \in Tracked : memory[b] = L1DATA

\* ------------------------------------------------------------------------
\* Claims about the dma operations over cache lines and memory
\* ------------------------------------------------------------------------

\* The operation installed as _dma_cache_wback has run on a non-empty range.
WbackDone ==
    /\ c_stage = "ret"
    /\ c_op.name = "_dma_cache_wback"
    /\ c_op.b > 0

\* The line of size lsize that holds block b intersects [addr, addr + size).
LineInRange(b, lsize, addr, size) ==
    LET line == b - (b % lsize)
    IN  line < addr + size /\ line + lsize > addr

\* No line that intersects the range of the request is modified in the
\* caller's data cache or in the secondary cache.
RangeNotDirty ==
    \A b \in Tracked :
        /\ LineInRange(b, dc_lsize, c_op.a, c_op.b) => b \notin l1_dirty[c_caller]
        /\ (scache_size > 0 /\ LineInRange(b, sc_lsize, c_op.a, c_op.b)) =>
               l2_dirty[b] = NOT_DIRTY

\* C11: when _dma_cache_wback returns for a non-empty range, no cache line
\* intersecting the range is dirty in the calling core's data cache or in
\* the secondary cache, on every SoC variant and for every size.
C11_WbackLeavesRangeClean == WbackDone => RangeNotDirty

\* The same for the routine c-ingenic.c installs.
C11_WbackLeavesRangeCleanInCIngenicC ==
    (WbackDone /\ cache_file = C_INGENIC_C) => RangeNotDirty

\* The same for part_001 when the range routine is taken in the data cache
\* and the secondary-cache stage is run.
C11_WbackLeavesRangeCleanOnRangePath ==
    (/\ WbackDone
     /\ cache_file = PART_001
     /\ ingenic_op_needs_ipi \/ c_op.b < dcache_size
     /\ cpu_type = CPU_XBURST2 \/ machtype_ge("MACH_INGENIC_X1830")) =>
        RangeNotDirty

\* ------------------------------------------------------------------------
\* Claims about CPU hotplug
\* ------------------------------------------------------------------------

\* jz4780_cpu_die(c) returns on the step.
DieReturns(c) == down[c] = "die" /\ down'[c] = "done"

\* jz4780_boot_secondary(c, ...) returns on the step.
BootReturns(c) ==
    \E k \in CPUS : pc[k] = "b_unlock" /\ pc'[k] = "idle" /\ b_cpu[k] = c

\* The running bit of c goes from set to clear on the step.
RunningBitCleared(c) == c \in cpu_running /\ c \notin cpu_running'

HotplugLifecycle ==
    \A c \in CPUS :
        /\ RunningBitCleared(c) =>
               \E k \in CPUS : pc[k] = "die_clear" /\ d_cpu[k] = c
        /\ DieReturns(c) => clears'[c] = 1 /\ c \notin cpu_running'
        /\ BootReturns(c) => c \in cpu_running'

\* C12: a core whose running bit is set is disabled and then died: the die
\* changes the core's bit in cpu_running from set to clear exactly once
\* (one change, made by jz4780_cpu_die, found clear when it returns), and
\* the following jz4780_boot_secondary of the core returns with the bit set
\* again; in every cycle of the same core.
C12_HotplugLifecycle == [][HotplugLifecycle]_vars

\* A core has gone through two complete die/boot cycles.
C12_TwoCyclesDone ==
    \E c \in CPUS :
        /\ ndies[c] = 2 /\ nboots = 2 /\ clears[c] = 1
        /\ down[c] = "no" /\ c \in cpu_running /\ c \in online

\* ------------------------------------------------------------------------
\* Claims about unknown core indexes
\* ------------------------------------------------------------------------

\* Core c executes the switch of jz4780_send_ipi_single_locked on the step.
SendSwitches(c) == pc[c] = "read" /\ hpc[c] = "none" /\ (pc'[c] # "read" \/ panicked')

\* Core c executes the switch of mbox_handler on the step.
HandlerSwitches(c) == hpc[c] = "read" /\ (hpc'[c] # "read" \/ panicked')

\* A switch given an index that is no core halts the kernel.
UnknownIndexHalts ==
    \A c \in CPUS :
        /\ (SendSwitches(c) /\ cur[c] \notin CPUS) => panicked'
        /\ (HandlerSwitches(c) /\ c \notin CPUS) => panicked'

\* A switch given the index of one of the cores does not halt the kernel.
CoreIndexDoesNotHalt ==
    \A c \in CPUS :
        /\ (SendSwitches(c) /\ cur[c] \in CPUS) => ~panicked'
        /\ (HandlerSwitches(c) /\ c \in CPUS) => ~panicked'

\* Once the kernel has halted no mailbox register changes.
HaltWritesNoMailbox == panicked' => mailbox' = mailbox

\* C13: a mailbox primitive (the send to a core, the handler on a core)
\* given a core index outside the cores 0..3 halts the kernel with a panic
\* and writes no mailbox register, and given the index of one of the four
\* cores it does not halt.
C13_PanicOnUnknownIndexOnly ==
    [][UnknownIndexHalts /\ HaltWritesNoMailbox /\ CoreIndexDoesNotHalt]_vars

\* The part of C13 about indexes that are no core.
C13_UnknownIndexHaltsWithoutWrite ==
    [][UnknownIndexHalts /\ HaltWritesNoMailbox]_vars

\* C13 for the copy in c-ingenic.c.
C13_PanicOnUnknownIndexOnlyInCIngenicC ==
    [][smp_file = C_INGENIC_C =>
           (UnknownIndexHalts /\ HaltWritesNoMailbox /\ CoreIndexDoesNotHalt)]_vars

\* ------------------------------------------------------------------------
\* Claims about zero-length requests
\* ------------------------------------------------------------------------

\* The request in progress has zero length: a dma operation with size 0, a
\* range flush with start = end.
ZeroLength ==
    \/ c_op.name \in DmaNames /\ c_op.b = 0
    \/ c_op.name \in RangeNames \cup LocalRangeNames /\ c_op.a = c_op.b

ErrctlWrites ==
    {Whole("write_c0_ingenic_errctl(XBURST_ERRCTL_WST_EN)"),
     Whole("write_c0_ingenic_errctl(XBURST_ERRCTL_WST_DIS)")}

\* The operation in progress has issued no cache primitive, has not written
\* the error-control register and has not touched the preemption count.
NothingDone ==
    /\ \A c \in CPUS : clog[c] = <<>>
    /\ \A c \in CPUS : \A i \in 1 .. Len(clog[c]) : clog[c][i] \notin ErrctlWrites
    /\ preempt_count = 0
    /\ scfm_calls = 0

\* C14: a cache-maintenance request of zero length (a dma operation called
\* with size 0, a range flush called with start = end) is rejected with a
\* warning and does nothing: no cache primitive is issued on any core, the
\* error-control register is not written and the preemption count is never
\* raised.
C14_ZeroLengthRejected ==
    (c_stage # "idle" /\ ZeroLength) => (warns(c_op) /\ NothingDone)

\* C14 for the dma operations alone.
C14_ZeroSizeDmaRejected ==
    (c_stage # "idle" /\ c_op.name \in DmaNames /\ c_op.b = 0)
        => (warns(c_op) /\ NothingDone)

\* ------------------------------------------------------------------------
\* Claims about ingenic_cache_init
\* ------------------------------------------------------------------------

\* ingenic_cache_init has returned.
InitReturned == i_stage = "done"

\* The fatal conditions of the init: a primary cache of size zero, a known
\* CPU type.
PrimarySizeZero ==
    probe_icache_size(config1) = 0 \/ probe_dcache_size(config1) = 0
CpuTypeKnown == cpu_type \in {CPU_XBURST, CPU_XBURST2}

\* config1 announces config2 and the secondary cache it describes has size
\* zero.
SecondarySizeZero == config1.m /\ probe_scache_size(config2) = 0

\* C15: ingenic_cache_init halts with a panic before it returns whenever
\* the probed size of the primary instruction cache or of the primary data
\* cache is zero, whenever config1 announces a config2 register and the
\* probed size of the secondary cache is zero, and whenever the CPU type is
\* neither CPU_XBURST nor CPU_XBURST2: it returns in none of these cases,
\* and past the probe of a cache of size zero the kernel has halted.
C15_FatalSelectionErrors ==
    /\ InitReturned =>
           (~PrimarySizeZero /\ ~SecondarySizeZero /\ CpuTypeKnown)
    /\ (PrimarySizeZero /\ i_stage # "probe_pcache") => panicked
    /\ (SecondarySizeZero /\ i_stage \notin {"probe_pcache", "probe_scache"})
           => panicked
    /\ (~CpuTypeKnown
           /\ i_stage \notin {"probe_pcache", "probe_scache", "setup", "install"})
           => panicked

\* C15 without the secondary cache.
C15_PrimarySizeAndCpuTypeFatal ==
    /\ InitReturned => (~PrimarySizeZero /\ CpuTypeKnown)
    /\ (PrimarySizeZero /\ i_stage # "probe_pcache") => panicked
    /\ (~CpuTypeKnown
           /\ i_stage \notin {"probe_pcache", "probe_scache", "setup", "install"})
           => panicked

\* The primitive is an instruction on the secondary cache: a range or line
\* operation on it, or a call through ingenic_blast_scache (in c-ingenic.c
\* also ingenic_blast_scache_range) bound to anything but the no-op.
ScacheInstruction(pr) ==
    \/ pr.p \in {"blast_scache_range", "blast_inv_scache_range",
                 "cache_op(Hit_Writeback_Inv_SD)"}
    \/ /\ pr.p \in {"ingenic_blast_scache", "ingenic_blast_scache_range"}
       /\ blast_scache_fn # "ingenic_cache_noop"

\* A dma operation has run after the init.
DmaRanAfterInit == InitReturned /\ c_op.name \in DmaNames

\* C16: when config1 announces no config2 register (no secondary cache),
\* ingenic_cache_init does not halt for that reason and returns, the
\* secondary cache stays flagged not present with scache_size 0, and a dma
\* operation of non-zero size called afterwards issues no instruction on
\* the secondary cache.
C16_NoSecondaryCacheIsValid ==
    ~config1.m =>
        /\ panicked => (PrimarySizeZero \/ ~CpuTypeKnown)
        /\ i_stage \notin {"probe_pcache", "probe_scache"} =>
               (scache_not_present /\ scache_size = 0)
        /\ DmaRanAfterInit =>
               \A i \in 1 .. Len(clog[0]) : ~ScacheInstruction(clog[0][i])

\* Without a secondary cache the init has returned and _dma_cache_inv of a
\* CPU_XBURST2 core has called ingenic_blast_scache.
C16_DmaInvWithoutSecondaryCache ==
    /\ ~config1.m /\ DmaRanAfterInit /\ ~panicked
    /\ scache_not_present /\ scache_size = 0
    /\ \E i \in 1 .. Len(clog[0]) : clog[0][i].p = "ingenic_blast_scache"

\* ------------------------------------------------------------------------
\* Claims about the coherency attribute
\* ------------------------------------------------------------------------

\* The setup run of ingenic_cache_init happens on the step.
InitSetupRuns == i_stage = "coherency" /\ i_stage' = "done"

\* The PM notifier is called on the step.
PmNotified == npm' = npm + 1

\* The attribute in effect: the coherency field of the config register and
\* _page_cachable_default agree on it.
EffectiveAttributeIs(v) ==
    c0_config_k0 = v /\ page_cachable_default = shl(v, CACHE_SHIFT)

CoherencySelection ==
    /\ InitSetupRuns =>
           /\ cca_cmdline \in 0 .. 7 => EffectiveAttributeIs(cca_cmdline)'
           /\ cca_cmdline \notin 0 .. 7 =>
                  EffectiveAttributeIs(conf_cm(c0_config_k0))'
    /\ (PmNotified /\ last_pm' \in {CPU_PM_EXIT, CPU_PM_ENTER_FAILED}) =>
           EffectiveAttributeIs(cca_at_init)'
    /\ (PmNotified /\ last_pm' \notin {CPU_PM_EXIT, CPU_PM_ENTER_FAILED}) =>
           UNCHANGED <<cca, c0_config_k0, page_cachable_default>>

ClockOutcomes == {"null", "prepare_failed", "enable_failed", "ok"}

\* Core k returns from jz4780_boot_secondary on the step.
BootSecondaryReturns(k) == pc[k] = "b_unlock" /\ pc'[k] = "idle"

BootSucceedsWhateverTheClock ==
    \A k \in CPUS :
        BootSecondaryReturns(k) =>
            /\ b_res.clk \in ClockOutcomes
            /\ b_res'.ret = <<0>>
            /\ CORECTRL_SWRST(b_cpu[k]) \notin corectrl'
            /\ b_cpu[k] \in cpu_running'

\* C17: jz4780_boot_secondary returns 0 for every target core and every
\* outcome of the clock steps (handle NULL, clk_prepare failed, clk_enable
\* failed, both fine), with the software reset of the target deasserted and
\* its running bit set.
C17_BootSecondaryReturnsZero ==
    /\ [][BootSucceedsWhateverTheClock]_vars
    /\ [](b_res.ret \in {<<>>, <<0>>})

\* A boot whose clk_prepare failed has returned 0 with the target out of
\* reset and flagged running.
C17_ReturnedZeroAfterClockFailure ==
    \E c \in CPUS :
        /\ b_res = [clk |-> "prepare_failed", ret |-> <<0>>]
        /\ c \in cpu_running /\ c # 0
        /\ CORECTRL_SWRST(c) \notin corectrl
        /\ clk_prepared[c] = 0 /\ c \in cpu_clock_gates

\* ------------------------------------------------------------------------
\* Claims about deliveries with no action bit
\* ------------------------------------------------------------------------

\* mbox_handler on core c returns on the step, having read a word that
\* holds neither the reschedule bit nor the call-function bit.
HandlerReturnsOnNoBit(c) ==
    /\ hpc[c] = "dispatch" /\ hpc'[c] = "none"
    /\ h_action[c] \cap ActionBits = {}

NeitherHandlerDispatched(c) == sched_ipi'[c] = 0 /\ call_ipi'[c] = 0

SpuriousReported ==
    \A c \in CPUS :
        HandlerReturnsOnNoBit(c) =>
            /\ h_log'[c] # <<>>
            /\ NeitherHandlerDispatched(c)
            /\ ~panicked'

SpuriousSilentlyHandled ==
    \A c \in CPUS :
        HandlerReturnsOnNoBit(c) =>
            /\ h_log'[c] = <<>>
            /\ NeitherHandlerDispatched(c)
            /\ ~panicked'

\* C19: a run of mbox_handler whose mailbox holds neither action bit reports
\* the delivery as spurious (a logged outcome of its own), dispatches
\* neither handler and does not halt the kernel.
C19_SpuriousDeliveryReported == [][SpuriousReported]_vars

\* Such a run dispatches neither handler and does not halt the kernel, and
\* it prints nothing.
C19_SpuriousDeliverySilent == [][SpuriousSilentlyHandled]_vars

\* ------------------------------------------------------------------------
\* Claims about the polling loop of jz4780_cpu_die
\* ------------------------------------------------------------------------

\* Core k polls the sleep bit of core c in jz4780_cpu_die(c).
DiePolls(k, c) == pc[k] = "die_poll" /\ d_cpu[k] = c

\* The caller of jz4780_cpu_die(c) is in its polling loop.
DiePolling(c) == \E k \in CPUS : DiePolls(k, c)

\* Core k leaves the polling loop on the step.
LeavesPollingLoop(k) == pc[k] = "die_poll" /\ pc'[k] # "die_poll"

\* The clock gate of c is disabled on the step.
ClockGateDisabled(c) == clk_enabled'[c] < clk_enabled[c]

DieLeavesOnSleepBitOnly ==
    \A k \in CPUS :
        /\ LeavesPollingLoop(k) => corestatus_sleep(d_cpu[k])
        /\ (pc[k] = "die_poll" /\ pc'[k] = "die_poll") =>
               ~ClockGateDisabled(d_cpu[k])

\* C20: jz4780_cpu_die(c) has no timeout. It leaves its loop only on a read
\* that finds the sleep bit of c set, and with the bit set it does leave
\* and return; where the bit stays clear for ever, the caller stays in the
\* loop for ever, and no step taken while it is in the loop disables the
\* clock gate of c.
C20_DieHasNoTimeout ==
    /\ [][DieLeavesOnSleepBitOnly]_vars
    /\ \A c \in LiveCores :
           (DiePolling(c) /\ corestatus_sleep(c)) ~> (down[c] = "done")
    /\ \A c \in LiveCores :
           []((DiePolling(c) /\ [](~corestatus_sleep(c))) => []DiePolling(c))

\* The caller polls while the core that goes down has not got to its wait.
C20_PollingWhileAwake ==
    \E k \in CPUS, c \in LiveCores :
        /\ DiePolls(k, c) /\ ~corestatus_sleep(c)
        /\ sec[c] \in {"up", "pd_clr_read", "pd_clr_write", "pd_spin", "pd_blast"}
        /\ c \notin cpu_running /\ clk_enabled[c] > 0

\* ------------------------------------------------------------------------
\* Claims about the cache-operation table after the init
\* ------------------------------------------------------------------------

\* The bindings ingenic_cache_init makes and the sizes it records.
TableAndSizes ==
    <<blast_scache_fn, dma_ops, dcache_size, icache_size, scache_size,
      dc_lsize, sc_lsize, scache_not_present>>

PairOf(k) == <<KSTK_TOS(b_idle[k]), task_thread_info(b_idle[k])>>

\* What the writes of the call on core k do on the step.
AssertsReset(k) == pc[k] = "b_assert" /\ pc'[k] # "b_assert"
UngatesClock(k) == pc[k] = "b_clk" /\ pc'[k] # "b_clk"
StoresPair(k) == pc[k] \in {"b_sp", "b_gp"} /\ pc'[k] # pc[k]
DeassertsReset(k) == pc[k] = "b_deassert" /\ pc'[k] # "b_deassert"
SetsRunning(k) == pc[k] = "b_running" /\ pc'[k] # "b_running"

\* The target of the call on core k is held in reset.
TargetInReset(k) == CORECTRL_SWRST(b_cpu[k]) \in corectrl

BootWritesInOrder ==
    \A k \in CPUS :
        /\ (AssertsReset(k) \/ UngatesClock(k) \/ StoresPair(k)
                \/ DeassertsReset(k) \/ SetsRunning(k)) => smp_lock = {k}
        /\ AssertsReset(k) => CORECTRL_SWRST(b_cpu[k]) \in corectrl'
        /\ UngatesClock(k) => TargetInReset(k)
        /\ StoresPair(k) => (TargetInReset(k) /\ b_res.ret = <<>>
                                 /\ b_res.clk # "none")
        /\ DeassertsReset(k) =>
               /\ TargetInReset(k) /\ wbuf = <<>>
               /\ <<jz4780_cpu_entry_sp, jz4780_cpu_entry_gp>> = PairOf(k)
               /\ CORECTRL_SWRST(b_cpu[k]) \notin corectrl'
        /\ SetsRunning(k) =>
               /\ ~TargetInReset(k)
               /\ b_cpu[k] \in cpu_running'

\* C22: within one jz4780_boot_secondary call the writes come in the order
\* assert reset, clock, entry_sp and entry_gp, barrier, deassert reset,
\* running bit, every one of them with smp_lock held by the caller; at the
\* deassert the pair in memory is the pair of this call.
C22_BootWritesInOrderUnderLock == [][BootWritesInOrder]_vars

\* The second boot has released its core: the pair in memory, which held the
\* pair of the first boot, is the pair of this call, and the lock is held.
C22_SecondBootReleasedCore ==
    \E k \in CPUS :
        /\ pc[k] = "b_running" /\ smp_lock = {k} /\ nboots = 2
        /\ b_res.clk # "none"
        /\ sec[b_cpu[k]] = "released"
        /\ <<jz4780_cpu_entry_sp, jz4780_cpu_entry_gp>> = PairOf(k)
        /\ \E c \in CPUS \ {0, b_cpu[k]} : c \in cpu_running /\ expect[c] # PairOf(k)

\* ------------------------------------------------------------------------
\* Claims about the lock discipline
\* ------------------------------------------------------------------------

\* A mailbox register, the core-control register or cpu_running takes a new
\* value on the step.
WritesShared ==
    mailbox' # mailbox \/ corectrl' # corectrl \/ cpu_running' # cpu_running

\* Core k is the one that takes the step: its thread, its handler, or its
\* entry into play_dead.
StepOf(k) ==
    \/ pc'[k] # pc[k]
    \/ hpc'[k] # hpc[k]
    \/ sec[k] = "up" /\ sec'[k] = "pd_clr_read"

WriterHoldsLock == WritesShared => \E k \in CPUS : StepOf(k) /\ smp_lock = {k}

\* C23: every write to a mailbox register, to the core-control register
\* and to cpu_running is made by a core that holds smp_lock.
C23_SharedWritesUnderLock == [][WriterHoldsLock]_vars

\* The writes of jz4780_boot_secondary, of the send operations and of
\* mbox_handler are made with smp_lock held; those of jz4780_cpu_die are
\* not.
C23_SharedWritesUnderLockButDie ==
    [][(\A k \in CPUS : pc[k] # "die_clear") => WriterHoldsLock]_vars

\* ------------------------------------------------------------------------
\* Batches of jz4780_send_ipi_mask
\* ------------------------------------------------------------------------

\* Masks of the batches: one that both copies can serve, and one with a
\* core the switch of smp.c has no case for.
BatchMasks == {{0, 1}, {1, 2}}

\* Cores that send batches, and the core that sends single actions meanwhile.
BatchSenders == {0, 3}
BatchRivals == {3}

\* Batches among single sends of another core and the handler runs.
BatchStep ==
    \/ \E c \in BatchSenders, mask \in BatchMasks, action \in SendActions :
           jz4780_send_ipi_mask(c, mask, action)
    \/ \E c \in BatchRivals, cpu \in {1}, action \in SendActions :
           jz4780_send_ipi_single(c, cpu, action)
    \/ \E c \in CPUS : send_lock(c)
    \/ \E c \in CPUS : send_locked_read(c)
    \/ \E c \in CPUS : send_locked_write(c)
    \/ \E c \in CPUS : send_unlock(c)
    \/ \E c \in CPUS : mbox_irq(c)
    \/ \E c \in CPUS : handler_lock(c)
    \/ \E c \in CPUS : handler_read(c)
    \/ \E c \in CPUS : handler_clear(c)
    \/ \E c \in CPUS : handler_status_read(c)
    \/ \E c \in CPUS : handler_status_write(c)
    \/ \E c \in CPUS : handler_unlock(c)
    \/ \E c \in CPUS : handler_dispatch(c)

NextBatch == BatchStep /\ UNCHANGED <<boot_vars, cache_vars, more_vars>>

SpecBatch == Init /\ [][NextBatch]_vars

\* ------------------------------------------------------------------------
\* Claims about jz4780_send_ipi_mask
\* ------------------------------------------------------------------------

\* Core c is inside a batch: past the acquire, before the release.
InBatch(c) == opk[c] = "mask" /\ pc[c] \in {"read", "write", "unlock"}

\* The batch holds smp_lock from its acquire to its release, and gives it up
\* only at the release, with no target left.
BatchHoldsLockOnce(c) ==
    InBatch(c) =>
        /\ smp_lock = {c}
        /\ smp_lock' # smp_lock => pc[c] = "unlock" /\ todo[c] = {}

\* Inside the batch the only mailbox writes are those of the batch, each one
\* OR-ing the action of the call into the mailbox of the next target.
BatchWritesAlone(c) ==
    InBatch(c) /\ mailbox' # mailbox =>
        /\ pc[c] = "write" /\ cur[c] \in todo[c]
        /\ mailbox' = [mailbox EXCEPT ![cur[c]] = @ \cup act[c]]
        /\ todo'[c] = todo[c] \ {cur[c]}
        /\ act'[c] = act[c]

\* At the release every target of the mask holds the action.
BatchCompleteAtRelease(c) ==
    InBatch(c) /\ smp_lock' = {} =>
        \E mask \in BatchMasks : \A t \in mask : act[c] \subseteq mailbox[t]

SetupHasRun == setup.stage \in {"prepare", "node", "write", "done"}

\* C26: after jz4780_smp_setup has run on the primary core, core 0 (the
\* core that ran it) is recorded as running: its bit and no other bit is set
\* in cpu_running, for every number of possible CPUs.
C26_PrimaryRecordedRunning == SetupHasRun => cpu_running = {0}

\* What the code does: the bit it sets is the value the loop left in cpu,
\* NR_CPUS in smp.c and the number of CPU nodes in c-ingenic.c; the bit of
\* core 0 stays clear.
C26_LoopCountRecordedRunning ==
    SetupHasRun =>
        /\ cpu_running = {setup_running_bit(smp_file, setup.nodes)}
        /\ 0 \notin cpu_running

\* jz4780_smp_setup is between its first write_c0_reim and its last one:
\* the mailboxes and the pending bits are being cleared.
SetupClearing == setup.stage \in {"clear", "status", "unmask"}

\* The mailbox interrupt of the primary core is masked while the registers
\* are cleared and unmasked, with the entry point programmed, at the return.
MaskedWhileClearing ==
    /\ SetupClearing => ~setup.mboxirq0m
    /\ SetupHasRun => setup.mboxirq0m /\ setup.entry = SECONDARY_ENTRY

\* After the return the mailboxes of `cores` and the pending bits are zero.
ClearedAfterSetup(cores) ==
    SetupHasRun =>
        /\ \A c \in cores : mailbox[c] = {}
        /\ mirqp = {}

\* C27: after jz4780_smp_setup the mailbox register of every core that
\* mbox_handler can serve (cores 0 to 3) and the pending bits of the core
\* status are zero; the primary core's mailbox interrupt is masked during
\* the whole interval in which the mailboxes are cleared and is unmasked
\* again, with the reset entry point programmed, when setup returns.
C27_SetupClearsAllMailboxes == ClearedAfterSetup(CPUS) /\ MaskedWhileClearing

\* What holds in both copies: the registers the copy writes are zero, and
\* the masking is as claimed; smp.c writes mailbox0 and mailbox1 only.
C27_SetupClearsWrittenMailboxes ==
    ClearedAfterSetup(setup_mailboxes(smp_file)) /\ MaskedWhileClearing

\* The c-ingenic.c copy clears all four.
C27_SetupClearsAllInCIngenicC ==
    smp_file = C_INGENIC_C => C27_SetupClearsAllMailboxes

\* The cores that have a CPU node.
NodeCores == 0 .. (setup.nodes - 1)

RpcBits(cores) == {CORECTRL_RPC(c) : c \in cores}

\* jz4780_smp_prepare_cpus goes on to the loop whatever request_irq
\* returned, with the control register as it read it.
PrepareEntersLoop ==
    setup.stage = "prepare" /\ setup' # setup =>
        /\ setup'.stage = "node"
        /\ setup'.todo = NodeCores
        /\ setup'.ctrl = corectrl

\* Each pass of the loop adds the RPC bit of its node and goes on to the
\* next node whatever the clock lookup returned; the handle is held only
\* for a lookup that succeeded, and no clock is enabled.
PrepareServesNode ==
    setup.stage = "node" /\ setup' # setup =>
        LET cpu == Min(setup.todo) IN
            /\ setup'.ctrl = setup.ctrl \cup {CORECTRL_RPC(cpu)}
            /\ setup'.todo = setup.todo \ {cpu}
            /\ setup'.stage = IF setup'.todo = {} THEN "write" ELSE "node"
            /\ cpu_clock_gates' \ {cpu} = cpu_clock_gates \ {cpu}
            /\ clk_enabled' = clk_enabled

\* The write of the control register adds the RPC bits of all CPU nodes to
\* the value the register held and changes no other bit.
PrepareWritesCtrl ==
    setup.stage = "write" /\ setup' # setup =>
        /\ setup'.stage = "done"
        /\ corectrl' = corectrl \cup RpcBits(NodeCores)

\* At the return the RPC bit of every CPU node is set, the other bits are
\* those of entry, and no clock gate is enabled.
PrepareReturned ==
    setup.stage = "done" =>
        /\ RpcBits(NodeCores) \subseteq corectrl
        /\ corectrl \ RpcBits(CPUS) \in BootCoreCtrls
        /\ cpu_clock_gates \subseteq NodeCores
        /\ \A c \in CPUS : clk_enabled[c] = 0

\* C28: jz4780_smp_prepare_cpus never aborts: for every core node with a
\* valid index it sets the core's RPC bit in the core-control register and
\* acquires, but does not enable, the core's clock gate; when request_irq
\* fails or a clock lookup fails (the handle is recorded as NULL) it still
\* sets the RPC bits of all core nodes and writes the control register,
\* preserving every bit it does not set.
C28_PrepareNeverAborts ==
    /\ []PrepareReturned
    /\ [][PrepareEntersLoop /\ PrepareServesNode /\ PrepareWritesCtrl]_vars

\* jz4780_smp_prepare_cpus returned after request_irq failed and the clock
\* lookup of a secondary core failed: the RPC bits of all four nodes are set
\* and the sleep mask bit it found is still set.
C28_ReturnedAfterFailures ==
    /\ setup.stage = "done" /\ setup.nodes = NR_CPUS
    /\ setup.irq = <<FALSE>>
    /\ cpu_clock_gates = {0, 2}
    /\ RpcBits(CPUS) \subseteq corectrl
    /\ CORECTRL_SLEEPM(0) \in corectrl

\* ------------------------------------------------------------------------
\* Claims about the size-based strategy of the dma operations
\* ------------------------------------------------------------------------

WholeDcachePrims ==
    {"ingenic_blast_dcache", "blast_dcache32", "ingenic_wback_dcache",
     "ingenic_inv_dcache"}

RangeDcachePrims ==
    {"blast_dcache_range", "blast_inv_dcache_range",
     "ingenic_wback_dcache_range"}

WholeScachePrims == {"ingenic_blast_scache"}

RangeScachePrims ==
    {"blast_scache_range", "ingenic_blast_scache_range",
     "blast_inv_scache_range"}

\* A dma operation of non-zero size has run.
DmaDone == c_stage = "ret" /\ c_op.name \in DmaNames /\ c_op.b > 0

\* The primitives of `names` the operation issued.
Issued(names) ==
    {i \in DOMAIN clog[c_caller] : clog[c_caller][i].p \in names}

\* The data-cache stage ran once, with the whole-cache primitive or with the
\* range primitive over [addr, addr + size).
DStageWhole ==
    Cardinality(Issued(WholeDcachePrims)) = 1 /\ Issued(RangeDcachePrims) = {}
DStageRange ==
    /\ Issued(WholeDcachePrims) = {}
    /\ Cardinality(Issued(RangeDcachePrims)) = 1
    /\ \A i \in Issued(RangeDcachePrims) :
           /\ clog[c_caller][i].a = c_op.a
           /\ clog[c_caller][i].b = c_op.a + c_op.b

\* The same for the secondary-cache stage.
SStageWhole ==
    Cardinality(Issued(WholeScachePrims)) = 1 /\ Issued(RangeScachePrims) = {}
SStageRange ==
    /\ Issued(WholeScachePrims) = {}
    /\ Cardinality(Issued(RangeScachePrims)) = 1
    /\ \A i \in Issued(RangeScachePrims) :
           /\ clog[c_caller][i].a = c_op.a
           /\ clog[c_caller][i].b = c_op.a + c_op.b
NoSStage == Issued(WholeScachePrims \cup RangeScachePrims) = {}

\* The operations that have no secondary-cache stage: xburst_dma_cache_inv,
\* xburst_dma_cache_wback_inv of part_001, and xburst_dma_cache_wback of
\* part_001 on a machine older than the X1830.
WithoutSStage ==
    /\ cpu_type = CPU_XBURST
    /\ \/ c_op.name = "_dma_cache_inv"
       \/ cache_file = PART_001 /\ c_op.name = "_dma_cache_wback_inv"
       \/ cache_file = PART_001 /\ c_op.name = "_dma_cache_wback"
              /\ ~machtype_ge("MACH_INGENIC_X1830")

HasDirtyBit(tag) == (tag \div 4) % 4 # 0

\* The pass of wback_dcache has ended and wait has not been executed yet.
PassEnded == wait_irqoff.stage \in {"sync", "wait"}

\* The lines written back and invalidated so far.
WrittenBack == {wait_irqoff.wbinv[i] : i \in DOMAIN wait_irqoff.wbinv}

\* During the pass no line is visited twice and only lines that were dirty
\* are written back, each once, clean lines keeping their tag; at its end
\* every line has been visited once and every dirty line written back.
PassVisitsOnceAndWritesDirty ==
    wait_irqoff.stage \in {"pass", "sync", "wait"} =>
        /\ \A l \in idle_lines : wait_irqoff.visits[l] <= 1
        /\ Cardinality(WrittenBack) = Len(wait_irqoff.wbinv)
        /\ \A l \in WrittenBack : HasDirtyBit(wait_irqoff.entry_tags[l])
        /\ \A l \in idle_lines \ WrittenBack :
               wait_irqoff.tags[l] = wait_irqoff.entry_tags[l]
        /\ PassEnded =>
               /\ \A l \in idle_lines : wait_irqoff.visits[l] = 1
               /\ WrittenBack =
                      {l \in idle_lines : HasDirtyBit(wait_irqoff.entry_tags[l])}

\* When wait is executed no line of the data cache is dirty, and sync is
\* the only instruction since the end of the pass.
CleanAtWait ==
    /\ wait_irqoff.stage = "wait" =>
           /\ \A l \in idle_lines : ~HasDirtyBit(wait_irqoff.tags[l])
           /\ wait_irqoff.after = <<"sync">>
    /\ wait_irqoff.after # <<>> =>
           /\ \A l \in idle_lines : wait_irqoff.visits[l] = 1
           /\ wait_irqoff.after \in {<<"sync">>, <<"sync", "wait">>}

\* C30: wback_dcache visits every (way, index) line of the data cache
\* exactly once and issues a write-back-invalidate for exactly the lines
\* whose tag has a dirty bit set, touching no clean line; so whenever a core
\* executes wait inside jz4780_smp_wait_irqoff its data cache holds no dirty
\* line, and nothing but the memory barrier runs between the end of the
\* pass and the wait.
C30_IdlePassWritesBackDirtyLines == PassVisitsOnceAndWritesDirty /\ CleanAtWait

\* A core is about to execute wait on a cache of three ways that held
\* clean lines and lines with the upper dirty bit alone: the dirty ones, and
\* only they, were written back.
C30_AboutToWaitAfterMixedPass ==
    /\ wait_irqoff.stage = "wait" /\ wait_irqoff.ways = 3
    /\ \E l \in idle_lines : wait_irqoff.entry_tags[l] = 8
    /\ \E l \in idle_lines : wait_irqoff.entry_tags[l] = 19
    /\ Len(wait_irqoff.wbinv) = 2

\* ------------------------------------------------------------------------
\* Claims about the entry test of jz4780_smp_wait_irqoff
\* ------------------------------------------------------------------------

\* At entry no reschedule was needed and no line was both latched and
\* enabled.
NothingPendingAtEntry ==
    /\ ~wait_irqoff.resched
    /\ \A l \in wait_irqoff.cause : l \notin wait_irqoff.status

\* The call is past its entry test.
PastEntryTest == wait_irqoff.stage \in {"pass", "sync", "wait", "irq_enable", "done"}

\* The pass has visited a line; wait has been executed.
PassStarted == \E l \in idle_lines : wait_irqoff.visits[l] > 0
WaitExecuted ==
    \E i \in DOMAIN wait_irqoff.after : wait_irqoff.after[i] = "wait"

\* C31: jz4780_smp_wait_irqoff performs the write-back pass and the wait if
\* and only if no reschedule is needed and no enabled interrupt is latched at
\* entry; when either is pending it performs neither; on every path it
\* returns with local interrupts enabled.
C31_PassAndWaitIffNothingPending ==
    /\ PastEntryTest =>
           /\ wait_irqoff.stage \in {"pass", "sync", "wait"} => NothingPendingAtEntry
           /\ ~NothingPendingAtEntry => ~PassStarted /\ ~WaitExecuted
           /\ wait_irqoff.stage \in {"irq_enable", "done"} =>
                  (NothingPendingAtEntry <=>
                       WaitExecuted /\ \A l \in idle_lines : wait_irqoff.visits[l] = 1)
    /\ wait_irqoff.stage = "done" <=> wait_irqoff.irqs = "on"

\* The call returned without pass and wait, with interrupts enabled, after
\* it found a line latched while another, masked one was latched too.
C31_ReturnedWithoutWait ==
    /\ wait_irqoff.stage = "done" /\ wait_irqoff.irqs = "on"
    /\ ~wait_irqoff.resched
    /\ wait_irqoff.cause = {2, 3} /\ wait_irqoff.status = {3}
    /\ ~PassStarted /\ ~WaitExecuted

\* ------------------------------------------------------------------------
\* Claims about the order of the steps of jz4780_cpu_die
\* ------------------------------------------------------------------------

\* Core k is inside jz4780_cpu_die and has not yet cleared the running bit.
DieBeforeClear(k) == pc[k] = "die_clear"

\* Core k is inside jz4780_cpu_die past the clearing of the running bit.
DiePastClear(k) == pc[k] \in {"die_poll", "die_clk"}

\* The steps of core k inside jz4780_cpu_die come in the order of the
\* code: the first one clears the running bit of the target and leads to
\* the polling loop, the statement after the loop is reached from the loop
\* alone and by a read that shows the sleep bit of the target, and the
\* clock gate of the target loses a count on the step after the loop and
\* on no other.
DieStepsInOrder ==
    \A k \in CPUS :
        /\ (DieBeforeClear(k) /\ pc'[k] # pc[k]) =>
               /\ pc'[k] = "die_poll"
               /\ d_cpu[k] \notin cpu_running'
               /\ clk_enabled' = clk_enabled
        /\ (pc'[k] = "die_clk" /\ pc[k] # "die_clk") =>
               /\ pc[k] = "die_poll"
               /\ corestatus_sleep(d_cpu[k])
               /\ clk_enabled' = clk_enabled
        /\ \A c \in CPUS :
               ClockGateDisabled(c) =>
                   \E j \in CPUS : pc[j] = "die_clk" /\ d_cpu[j] = c

\* C32: jz4780_cpu_die(c) clears the running bit of c first, and disables
\* the clock gate of c only after a read of the core-status register has
\* shown the sleep bit of c set: the statement that disables the gate is
\* reached from the polling loop alone, the loop is left by such a read
\* alone, and the running bit of c stays clear from the first step of the
\* call to its return.
C32_DieDisablesClockAfterSleepSeen ==
    /\ [][DieStepsInOrder]_vars
    /\ [](\A k \in CPUS : DiePastClear(k) => d_cpu[k] \notin cpu_running)

\* A die has returned with the gate of a core disabled, the core asleep and
\* its running bit clear.
C32_GateDisabledOnSleepingCore ==
    \E c \in CPUS \ {0} :
        /\ down[c] = "done" /\ c \in cpu_clock_gates
        /\ clk_enabled[c] = 0 /\ corestatus_sleep(c)
        /\ c \notin cpu_running /\ clears[c] > 0
        /\ \A k \in CPUS : pc[k] \notin {"die_clear", "die_poll", "die_clk"}

\* ------------------------------------------------------------------------
\* Claims about the loop of play_dead
\* ------------------------------------------------------------------------

\* Core c is in the inner loop of play_dead.
PlayDeadSpins(c) == sec[c] = "pd_spin"

\* Core c leaves the inner loop of play_dead on the step.
LeavesSpin(c) == PlayDeadSpins(c) /\ sec'[c] # "pd_spin"

\* Core c flushes its caches and executes wait on the step.
FlushesAndWaits(c) == sec[c] = "pd_blast" /\ sec'[c] = "pd_wait"

\* C33: the core in play_dead leaves its spin-wait only on a read that
\* finds its own running bit set; while the bit is clear it stays in the
\* spin-wait, and it neither flushes its caches nor goes to the wait of
\* the re-entry routine.
C33_LeavesSpinOnRunningBitSet ==
    [][\A c \in CPUS :
           /\ LeavesSpin(c) => c \in cpu_running
           /\ c \notin cpu_running => ~FlushesAndWaits(c)]_vars

\* What the loop does: while (cpumask_test_cpu(cpu, &cpu_running)) is left
\* on a read that finds the running bit clear, and the core flushes and
\* waits with the bit clear.
C33_LeavesSpinOnRunningBitClear ==
    [][\A c \in CPUS :
           /\ LeavesSpin(c) => c \notin cpu_running
           /\ FlushesAndWaits(c) => c \notin cpu_running]_vars

\* ------------------------------------------------------------------------
\* Claims about the entry of play_dead
\* ------------------------------------------------------------------------

\* Core c is between the entry of play_dead and its loop.
PlayDeadEntering(c) == sec[c] \in {"pd_clr_read", "pd_clr_write"}

\* Core c takes a step of the entry of play_dead.
PlayDeadEntrySteps(c) ==
    \/ pc[c] = "offline" /\ sec[c] = "up" /\ sec'[c] = "pd_clr_read"
    \/ PlayDeadEntering(c) /\ sec'[c] # sec[c]

\* Core c enters the loop of play_dead on the step.
PlayDeadEntersLoop(c) == sec[c] = "pd_clr_write" /\ sec'[c] = "pd_spin"

\* The mailboxes and pending bits of the cores other than c.
OthersMail(c) == [o \in CPUS \ {c} |-> mailbox[o]]
OthersPending(c) == mirqp \ {c}

\* C34: play_dead on core c (any of 0..3) runs with local interrupts off,
\* and when it enters its loop the mailbox of c is zero and the pending
\* bit of c is clear; no step of its entry changes the mailbox or the
\* pending bit of another core.
C34_PlayDeadClearsOwnMailboxAndBit ==
    [][\A c \in CPUS :
           /\ PlayDeadEntrySteps(c) =>
                  /\ irqs_disabled(c)'
                  /\ OthersMail(c)' = OthersMail(c)
                  /\ OthersPending(c)' = OthersPending(c)
           /\ PlayDeadEntersLoop(c) =>
                  /\ mailbox'[c] = {}
                  /\ c \notin mirqp']_vars

\* The part that holds for the cores the switch of play_dead names: core 0
\* or 1 enters the loop with its mailbox zero and its pending bit clear,
\* and no step of the entry changes another core's mailbox.
C34_PlayDeadClearsMailboxOfCore0Or1 ==
    [][\A c \in play_dead_cases :
           /\ PlayDeadEntrySteps(c) =>
                  /\ irqs_disabled(c)'
                  /\ OthersMail(c)' = OthersMail(c)
           /\ PlayDeadEntersLoop(c) =>
                  /\ mailbox'[c] = {}
                  /\ c \notin mirqp']_vars

\* Core 2 or 3 enters the loop of play_dead with an action left in its
\* mailbox.
C34_Core2Or3KeepsMailbox ==
    [][\A c \in CPUS \ play_dead_cases :
           PlayDeadEntersLoop(c) => mailbox'[c] = {}]_vars

\* ------------------------------------------------------------------------
\* Specification of CPU hotplug where any core, core 0 included, is taken
\* down: jz4780_cpu_disable has no test of the core it runs on
\* ------------------------------------------------------------------------

\* The take-down of cores, with no boot after it.
DisableStep ==
    \/ \E c \in CPUS : jz4780_cpu_disable(c)
    \/ \E c \in CPUS : disable_lock(c)
    \/ \E c \in CPUS : disable_reroute(c)
    \/ \E c \in CPUS : disable_unlock(c)
    \/ \E c \in CPUS : play_dead(c)
    \/ \E c \in CPUS : play_dead_clr_read(c)
    \/ \E c \in CPUS : play_dead_clr_write(c)
    \/ \E c \in CPUS : play_dead_spin(c)
    \/ \E c \in CPUS : play_dead_wait(c)
    \/ \E k \in CPUS, cpu \in CPUS : jz4780_cpu_die(k, cpu)
    \/ \E k \in CPUS : die_clear_running(k)
    \/ \E k \in CPUS : die_poll(k)
    \/ \E k \in CPUS : die_clk_disable(k)

NextDisable == DisableStep /\ UNCHANGED <<init_vars, setup, wait_irqoff>>

InitDisable == InitHotplugRouted(DisableRouted)

SpecDisable == InitDisable /\ [][NextDisable]_vars

\* ------------------------------------------------------------------------
\* Claims about jz4780_cpu_disable
\* ------------------------------------------------------------------------

\* Core c enters jz4780_cpu_disable, writes the register, returns.
DisableEnters(c) == pc[c] = "idle" /\ pc'[c] = "dis_lock"
DisableWrites(c) == pc[c] = "dis_reim" /\ pc'[c] = "dis_unlock"
DisableReturns(c) == pc[c] = "dis_unlock" /\ pc'[c] = "offline"

\* The bits of the register other than the routing bits of c and of core 0.
OtherReimBits(c) == reim_irqm \ {REIM_IRQM(c), REIM_IRQM(0)}

\* What the steps of jz4780_cpu_disable on core c have in common on every
\* core: the online bit is cleared at entry, the register changes on the
\* locked write alone, that write leaves every bit but the two routing bits
\* alone and leaves the register alone when the bit of c was clear, and
\* the call returns with the lock released and the core offline.
DisableSteps(c) ==
    /\ DisableEnters(c) => c \notin online' /\ reim_irqm' = reim_irqm
    /\ DisableWrites(c) =>
           /\ smp_lock = {c}
           /\ OtherReimBits(c)' = OtherReimBits(c)
           /\ REIM_IRQM(c) \notin reim_irqm => reim_irqm' = reim_irqm
           /\ REIM_IRQM(c) \in reim_irqm => REIM_IRQM(0) \in reim_irqm'
    /\ DisableReturns(c) =>
           /\ c \notin online' /\ down'[c] = "disabled"
           /\ c \notin smp_lock' /\ reim_irqm' = reim_irqm

\* The register is written by the locked write of jz4780_cpu_disable only.
ReimWrittenByDisable ==
    reim_irqm' # reim_irqm => \E c \in CPUS : DisableWrites(c)

\* C35: jz4780_cpu_disable on core c clears the online bit of c and
\* returns 0; if the routing bit of c was set, after the locked write the
\* bit of c is clear and the bit of core 0 is set; if it was clear the
\* register is unchanged; no other bit changes.
C35_DisableReroutesToCore0 ==
    [][/\ ReimWrittenByDisable
       /\ \A c \in CPUS :
              /\ DisableSteps(c)
              /\ (DisableWrites(c) /\ REIM_IRQM(c) \in reim_irqm) =>
                     REIM_IRQM(c) \notin reim_irqm']_vars

\* C35, for the cores the re-routing moves the interrupt away from: as
\* above, with the routing bit of c clear after the write on a core other
\* than core 0; on core 0 the bit that is cleared is the bit that is set,
\* and the register keeps its value.
C35_DisableReroutesSecondaryToCore0 ==
    [][/\ ReimWrittenByDisable
       /\ \A c \in CPUS :
              /\ DisableSteps(c)
              /\ (DisableWrites(c) /\ REIM_IRQM(c) \in reim_irqm) =>
                     IF c = 0 THEN reim_irqm' = reim_irqm
                     ELSE REIM_IRQM(c) \notin reim_irqm']_vars

\* Core 1 has returned from jz4780_cpu_disable with the interrupt it held
\* routed to core 0 and the routing bit of core 3 as it was.
C35_Core1ReroutedToCore0 ==
    /\ down[1] = "disabled" /\ 1 \notin online /\ smp_lock = {}
    /\ reim_irqm = reim_masks({0, 3})

\* ------------------------------------------------------------------------
\* Specification of the users of smp_lock together: the two send
\* operations, mbox_handler, jz4780_boot_secondary, jz4780_smp_finish and
\* jz4780_cpu_disable
\* ------------------------------------------------------------------------

\* The cores that send, their single targets and their mask; the core that
\* is taken down and booted again is the one of LiveCores.
LockSenders == {2}
LockTargets == {0}
LockMasks == {{0, 1}}
LockActions == {{SMP_CALL_FUNCTION}}

\* The core that boots the core taken down and waits for its death.
LockCallers == {0}

\* The scenario: two sends, and one take-down of the core followed by one
\* boot. A send starts after none or one, the take-down and the boot after
\* none.
SendsBefore == {0, 1}
CyclesBefore == {0}

\* The acquisitions of smp_lock by core c.
LockAcquire(c) ==
    \/ send_lock(c) /\ UNCHANGED <<boot_vars, cache_vars, more_vars>>
    \/ handler_lock(c) /\ UNCHANGED <<boot_vars, cache_vars, more_vars>>
    \/ boot_lock(c) /\ UNCHANGED <<cache_vars, more_vars>>
    \/ disable_lock(c) /\ UNCHANGED <<init_vars, setup, wait_irqoff>>
    \/ finish_lock(c) /\ UNCHANGED <<init_vars, setup, wait_irqoff>>

\* The steps core c takes while it holds smp_lock, the release included.
LockHeldStep(c) ==
    \/ /\ \/ send_locked_read(c)
          \/ send_locked_write(c)
          \/ send_unlock(c)
          \/ handler_read(c)
          \/ handler_clear(c)
          \/ handler_status_read(c)
          \/ handler_status_write(c)
          \/ handler_unlock(c)
       /\ UNCHANGED <<boot_vars, cache_vars, more_vars>>
    \/ /\ \/ boot_assert_reset(c)
          \/ boot_ungate_clock(c, TRUE, TRUE)
          \/ boot_write_sp(c)
          \/ boot_write_gp(c)
          \/ boot_wmb(c)
          \/ boot_deassert_reset(c)
          \/ boot_set_running(c)
          \/ boot_unlock(c)
       /\ UNCHANGED <<cache_vars, more_vars>>
    \/ /\ \/ disable_reroute(c)
          \/ disable_unlock(c)
          \/ finish_unmask(c)
          \/ finish_unlock(c)
       /\ UNCHANGED <<init_vars, setup, wait_irqoff>>

\* The steps outside the critical sections: the calls, the interrupt, the
\* dispatch, the drain of the store buffer, the entry of the booted core,
\* and the take-down of the core.
LockFreeStep ==
    \/ /\ \/ \E c \in LockSenders, cpu \in LockTargets, action \in LockActions :
                 nops \in SendsBefore /\ jz4780_send_ipi_single(c, cpu, action)
          \/ \E c \in LockSenders, mask \in LockMasks, action \in LockActions :
                 nops \in SendsBefore /\ jz4780_send_ipi_mask(c, mask, action)
          \/ \E c \in CPUS : mbox_irq(c)
          \/ \E c \in CPUS : handler_dispatch(c)
       /\ UNCHANGED <<boot_vars, cache_vars, more_vars>>
    \/ /\ \/ \E k \in LockCallers, cpu \in LiveCores :
                 nboots \in CyclesBefore /\ boot_after_die(k, cpu)
          \/ store_drains
          \/ \E c \in CPUS : entry_load_sp(c)
          \/ \E c \in CPUS : entry_load_gp(c)
       /\ UNCHANGED <<cache_vars, more_vars>>
    \/ /\ \/ \E c \in LiveCores :
                 ndies[c] \in CyclesBefore /\ jz4780_cpu_disable(c)
          \/ \E c \in CPUS : play_dead(c)
          \/ \E c \in CPUS : play_dead_clr_read(c)
          \/ \E c \in CPUS : play_dead_clr_write(c)
          \/ \E c \in CPUS : play_dead_spin(c)
          \/ \E c \in CPUS : play_dead_wait(c)
          \/ \E k \in LockCallers, cpu \in CPUS : jz4780_cpu_die(k, cpu)
          \/ \E k \in CPUS : die_clear_running(k)
          \/ \E k \in CPUS : die_poll(k)
          \/ \E k \in CPUS : die_clk_disable(k)
          \/ \E c \in CPUS : jz4780_smp_finish(c)
       /\ UNCHANGED <<init_vars, setup, wait_irqoff>>

NextLock ==
    \/ \E c \in CPUS : LockAcquire(c)
    \/ \E c \in CPUS : LockHeldStep(c)
    \/ LockFreeStep

\* The holder of smp_lock runs with interrupts off and without preemption,
\* so each step of a critical section is taken once it can be; a core that
\* spins in spin_lock takes the lock once it stays free.
LockFairness ==
    \A c \in CPUS : WF_vars(LockHeldStep(c)) /\ WF_vars(LockAcquire(c))

SpecLockLive == InitHotplugLive /\ [][NextLock]_vars /\ LockFairness

\* ------------------------------------------------------------------------
\* Claims about smp_lock as a whole
\* ------------------------------------------------------------------------

\* Core c is at a spin_lock(&smp_lock) it has not got through: in a send,
\* a boot, a disable, a finish, or in mbox_handler.
WaitsForLock(c) ==
    \/ pc[c] \in {"lock", "b_lock", "dis_lock", "fin_lock"}
    \/ hpc[c] = "lock"

\* Core c is inside a critical section that is not the one of mbox_handler.
InNonHandlerSection(c) == smp_lock = {c} /\ pc[c] # "idle"

\* mbox_handler is running on core c, from the interrupt to its return.
HandlerRuns(c) == hpc[c] # "none"

\* No core waits for the lock it holds, no handler runs on a core that is
\* inside another critical section, one core at most holds the lock, and
\* the handler has released it when it dispatches.
LockSafe ==
    /\ Cardinality(smp_lock) <= 1
    /\ \A c \in CPUS :
           /\ ~(WaitsForLock(c) /\ smp_lock = {c})
           /\ ~(HandlerRuns(c) /\ InNonHandlerSection(c))
           /\ hpc[c] = "dispatch" => c \notin smp_lock

\* C36: smp_lock is deadlock-free over the send operations, the boot, the
\* finish, the disable and mbox_handler on four cores: no core waits for
\* the lock while it holds it, the handler never runs on a core inside a
\* non-handler critical section, the handler's dispatch runs after the
\* release, and with the holder running and the lock served fairly every
\* core that waits for the lock gets it.
C36_LockDeadlockFree ==
    /\ []LockSafe
    /\ \A c \in CPUS : WaitsForLock(c) ~> (smp_lock = {c})

\* The handler of core 0 and the send of core 2 wait for the lock while
\* core 1 holds it in jz4780_smp_finish.
C36_TwoWaitOnFinish ==
    /\ hpc[0] = "lock" /\ pc[2] = "lock"
    /\ pc[1] = "fin_reim" /\ smp_lock = {1}

\* ------------------------------------------------------------------------
\* Claims about the rendezvous of jz4780_cpu_die and play_dead
\* ------------------------------------------------------------------------

\* A die of core c is in progress, from the call to the return.
DieInProgress(c) == down[c] = "die"

\* The order of the rendezvous: core c flushes and waits with its running
\* bit clear, and its clock gate loses a count only when it has flushed and
\* sits in its wait.
RendezvousInOrder ==
    \A c \in CPUS :
        /\ FlushesAndWaits(c) => c \notin cpu_running
        /\ ClockGateDisabled(c) =>
               /\ corestatus_sleep(c)
               /\ c \notin cpu_running
               /\ DieInProgress(c)

\* C37: when jz4780_cpu_die(c) is called while core c is in play_dead, c
\* blasts its caches and executes wait only after its running bit has been
\* cleared, the clock gate of c is disabled only after c has done both,
\* and, with the sleep bit set by the wait and both cores running, the
\* die returns.
C37_DieRendezvous ==
    /\ [][RendezvousInOrder]_vars
    /\ \A c \in LiveCores : DieInProgress(c) ~> (down[c] = "done")

\* The caller of the die has seen the sleep bit of core 1 and is about to
\* disable its clock gate; core 1 sits in its wait with the gate still
\* enabled.
C37_CallerPastRendezvous ==
    \E k \in CPUS \ {1} :
        /\ pc[k] = "die_clk" /\ d_cpu[k] = 1 /\ DieInProgress(1)
        /\ sec[1] = "pd_wait" /\ 1 \notin cpu_running
        /\ clk_enabled[1] > 0

\* ------------------------------------------------------------------------
\* Claims about the bindings the dma operations call through
\* ------------------------------------------------------------------------

\* The routine ingenic_blast_scache_range points to: c-ingenic.c binds it
\* in the branches that bind ingenic_blast_scache; part_001 has no such
\* pointer and calls blast_scache_range itself.
blast_scache_range_fn ==
    IF cache_file # C_INGENIC_C THEN "blast_scache_range"
    ELSE IF blast_scache_fn \in {"NULL", "ingenic_cache_noop"} THEN blast_scache_fn
    ELSE "blast_scache_range"

\* The secondary-cache geometries the setup is claimed to serve.
ServedGeometry == scache_size = 0 \/ sc_lsize \in {32, 64, 128}

\* The binding behind a call the dma operation on core 0 has made.
BindingCalled(e) ==
    CASE e.p = "ingenic_blast_scache" -> blast_scache_fn
      [] e.p = "ingenic_blast_scache_range" -> blast_scache_range_fn
      [] OTHER -> e.p

\* Every call the dma operation has made went to a routine.
CallsAreBound ==
    \A i \in 1 .. Len(clog[0]) : BindingCalled(clog[0][i]) # "NULL"

\* The dma pointers of the table are bound.
DmaOpsBound ==
    dma_ops.wback_inv # "NULL" /\ dma_ops.wback # "NULL" /\ dma_ops.inv # "NULL"

\* C38: after ingenic_cache_init has returned with a secondary cache of
\* size zero or of line size 32, 64 or 128, the dma pointers are bound and
\* every call a dma operation makes through ingenic_blast_scache or the
\* secondary range pointer goes to a routine, none to a null pointer.
C38_CalledEntriesAreBound ==
    (InitReturned /\ ServedGeometry) => (DmaOpsBound /\ CallsAreBound)

\* The same for the geometries ingenic_blast_scache_setup of the copy in
\* use has a branch for: c-ingenic.c serves 128-byte lines, part_001 does
\* not.
C38_CalledEntriesAreBoundWhereSetupKnows ==
    (InitReturned /\ ServedGeometry
        /\ (cache_file = C_INGENIC_C \/ scache_size = 0 \/ sc_lsize # 128))
        => (DmaOpsBound /\ CallsAreBound)

\* ------------------------------------------------------------------------
\* The operations of the table whose routine is an empty body, a loop or a
\* single call
\* ------------------------------------------------------------------------

SimpleOps ==
    {"__flush_cache_vmap", "__flush_cache_vunmap", "__flush_kernel_vmap_range",
     "local_flush_data_cache_page", "flush_data_cache_page", "flush_cache_mm",
     "flush_cache_all", "flush_icache_all"}

\* ingenic_cache_noop0, 1, 2 and 7 of c-ingenic.c: printk(...); while(1);
SpinningNoops ==
    {"ingenic_cache_noop0", "ingenic_cache_noop1", "ingenic_cache_noop2",
     "ingenic_cache_noop7"}

\* The routine ingenic_cache_init binds to the operation.
simple_installed(name) ==
    CASE name = "__flush_cache_vmap" ->
             IF cache_file = C_INGENIC_C THEN "ingenic_cache_noop0"
             ELSE "ingenic_blast_dcache"
      [] name = "__flush_cache_vunmap" ->
             IF cache_file = C_INGENIC_C THEN "ingenic_cache_noop1"
             ELSE "ingenic_blast_dcache"
      [] name = "__flush_kernel_vmap_range" ->
             IF cache_file = C_INGENIC_C THEN "ingenic_cache_noop2"
             ELSE "ingenic_flush_kernel_vmap_range"
      [] name = "local_flush_data_cache_page" ->
             IF cache_file = C_INGENIC_C THEN "ingenic_cache_noop7"
             ELSE "ingenic_blast_dcache_page"
      [] name = "flush_data_cache_page" ->
             IF cache_file = C_INGENIC_C THEN "blast_dcache32_page"
             ELSE "ingenic_blast_dcache_page"
      [] name = "flush_cache_mm" ->
             IF cache_file = C_INGENIC_C THEN "ingenic_cache_noop"
             ELSE "ingenic_flush_cache_mm"
      [] OTHER -> "ingenic_cache_noop"

\* The routines with an empty body.
EmptyRoutines == {"ingenic_cache_noop", "ingenic_flush_cache_mm"}

\* One of these operations is called on core k through its pointer.
vtable_call(k, name) ==
    /\ c_stage = "idle"
    /\ k \in online
    /\ simple_installed(name) # "ingenic_flush_kernel_vmap_range"
    /\ c_caller' = k
    /\ c_op' = Request(name, 0, 0, FALSE, FALSE, FALSE, FALSE)
    /\ c_stage' = "simple"
    /\ queued' = {}
    /\ scfm_calls' = 0
    /\ ran' = [c \in CPUS |-> 0]
    /\ clog' = [c \in CPUS |-> <<>>]
    /\ preempt_count' = 0
    /\ mem_entry' = memory
    /\ repeat' = FALSE
    /\ UNCHANGED <<cache_config, l1_dirty, l2_dirty, memory>>

\* The stage after the body of routine f: a spinning no-op enters while(1);
\* which has no exit, every other routine returns.
stage_after(f) == IF f \in SpinningNoops THEN "spin" ELSE "ret"

\* The body of the routine: nothing, a printk followed by while(1);, or
\* one call of a primitive.
simple_body ==
    /\ c_stage = "simple"
    /\ LET f == simple_installed(c_op.name)
           log == IF f \in EmptyRoutines THEN <<>>
                  ELSE IF f \in SpinningNoops THEN <<Whole("printk")>>
                  ELSE <<Whole(f)>>
       IN  /\ clog' = [clog EXCEPT ![c_caller] = @ \o log]
           /\ c_stage' = stage_after(f)
    /\ UNCHANGED <<cache_config, c_caller, c_op, queued, ran, scfm_calls,
                   preempt_count, cache_lines>>

\* The table is called with one peer online, on a request that starts at
\* address 0 or is a page flush.
VtableOnline == {{0, 1}}
VtableRequests ==
    {r \in CacheRequests : r.a = 0 \/ r.name = "flush_cache_page"}

InitVtable == InitCache /\ online \in VtableOnline

\* One call of one operation of the table, from its call to its return.
VtableStep ==
    \/ \E k \in CPUS, r \in VtableRequests :
           c_op = NoRequest /\ cache_call(k, r)
    \/ \E k \in CPUS, name \in SimpleOps :
           c_op = NoRequest /\ vtable_call(k, name)
    \/ \E p \in CPUS : peer_runs(p)
    \/ call_returns
    \/ cache_local
    \/ simple_body
    \/ cache_return

NextVtable ==
    VtableStep /\ UNCHANGED <<smp_file, panicked, ipi_vars, boot_vars, more_vars>>

\* The caller runs, and the online peers take the call-function interrupt:
\* a step that can be taken is taken.
SpecVtableLive == InitVtable /\ [][NextVtable]_vars /\ WF_vars(NextVtable)

\* ------------------------------------------------------------------------
\* Claims about the termination of the operations of the table
\* ------------------------------------------------------------------------

\* An operation has been called and has not returned.
InOperation == c_stage # "idle"

\* The operation in progress is bound to a routine that ends in while(1);.
BoundToSpinningNoop ==
    c_stage \in {"simple", "spin"} /\ simple_installed(c_op.name) \in SpinningNoops

\* C39: every operation ingenic_cache_init installs in the table,
\* __flush_cache_vmap, __flush_cache_vunmap, __flush_kernel_vmap_range and
\* local_flush_data_cache_page included, returns to its caller on every
\* input.
C39_EveryOperationReturns == InOperation ~> (c_stage = "idle")

\* The operations that are not bound to ingenic_cache_noop0, 1, 2 or 7
\* return.
C39_OtherOperationsReturn ==
    (InOperation /\ ~BoundToSpinningNoop) ~> (c_stage = "idle")

\* ------------------------------------------------------------------------
\* Claims about the counts of the clock gates
\* ------------------------------------------------------------------------

\* Core k takes the clock step of jz4780_boot_secondary, the clock step of
\* jz4780_cpu_die.
BootClockStep(k) == pc[k] = "b_clk" /\ pc'[k] = "b_sp"
DieClockStep(k) == pc[k] = "die_clk" /\ pc'[k] = "idle"

\* The counts of every gate are 0 or 1.
CountsWithinOne ==
    \A c \in CPUS : clk_enabled[c] \in {0, 1} /\ clk_prepared[c] \in {0, 1}

\* A boot whose clock calls succeed leaves the enable count of its gate at
\* 1, the die that follows leaves it at 0, and a step on a core without a
\* handle changes no count.
ClockStepsBalance ==
    \A k \in CPUS :
        /\ (BootClockStep(k) /\ b_cpu[k] \in cpu_clock_gates
                /\ b_res'.clk = "ok") => clk_enabled'[b_cpu[k]] = 1
        /\ (DieClockStep(k) /\ d_cpu[k] \in cpu_clock_gates) =>
               clk_enabled'[d_cpu[k]] = 0
        /\ (DieClockStep(k) /\ d_cpu[k] \notin cpu_clock_gates) =>
               (clk_enabled' = clk_enabled /\ clk_prepared' = clk_prepared)
        /\ (BootClockStep(k) /\ b_cpu[k] \notin cpu_clock_gates) =>
               (clk_enabled' = clk_enabled /\ clk_prepared' = clk_prepared)

\* C40: over any sequence of jz4780_boot_secondary(c) and
\* jz4780_cpu_die(c) calls the enable count of the gate of c is 1 after a
\* successful boot and 0 after the die that follows, never negative and
\* never above 1, and a die of a core whose handle is NULL changes no
\* clock.
C40_ClockGateBalanced == []CountsWithinOne /\ [][ClockStepsBalance]_vars

\* Every clock step moves the counts of its own gate by one: a boot whose
\* clock calls succeed raises the enable count by one whatever it was, a
\* die lowers it by one, and a step on a core without a handle changes no
\* count.
ClockStepsCount ==
    \A k \in CPUS :
        /\ (BootClockStep(k) /\ b_cpu[k] \in cpu_clock_gates
                /\ b_res'.clk = "ok") =>
               clk_enabled'[b_cpu[k]] = clk_enabled[b_cpu[k]] + 1
        /\ (DieClockStep(k) /\ d_cpu[k] \in cpu_clock_gates) =>
               clk_enabled'[d_cpu[k]] = clk_put_count(clk_enabled[d_cpu[k]])
        /\ ((DieClockStep(k) /\ d_cpu[k] \notin cpu_clock_gates)
                \/ (BootClockStep(k) /\ b_cpu[k] \notin cpu_clock_gates)) =>
               (clk_enabled' = clk_enabled /\ clk_prepared' = clk_prepared)

\* C40 (what the code does): each clock step counts by one and a step on
\* a NULL handle changes no clock; a boot repeated before the core came up
\* raises the count a second time.
C40_ClockStepsCountByOne == [][ClockStepsCount]_vars

====
